---- MODULE Spec2Model ----
(***************************************************************************)
(* A model of the margin-trading reconciliation and derived-metrics        *)
(* pipeline of tradeTools (src/margin/fetcher.py, src/margin/processor.py, *)
(* src/sector/...).                                                        *)
(*                                                                         *)
(* Tables (pandas DataFrames) are sequences of rows; a row is a function   *)
(* from column names to cell values; every row of a table has the same     *)
(* columns.  The empty DataFrame is <<>>.                                  *)
(*                                                                         *)
(* Column names (the source's Chinese names, in ASCII):                    *)
(*   date        日期            trade_date  交易日期                      *)
(*   fin_buy     融资买入额      fin_bal     融资余额                      *)
(*   short_vol   融券卖出量      short_qty   融券余量                      *)
(*   short_bal   融券余额        margin_total 融资融券余额 (AKShare raw)   *)
(*   total_bal   两融余额        turnover    成交金额                      *)
(*                                                                         *)
(* Cell values are integers.  Source amounts are whole units; a derived    *)
(* column rounded to 2 decimals is held in hundredths, one rounded to 4    *)
(* decimals in ten-thousandths.  The float specials are the integers NaN,  *)
(* PInf and NInf; Bad is a cell holding a non-numeric string.              *)
(***************************************************************************)
EXTENDS Integers, Sequences, FiniteSets, TLC

VARIABLES
    pc,         \* where the caller is: "idle", inside an operation, or after it
    call,       \* the operation called and its arguments
    result,     \* the value the operation returned
    raised,     \* TRUE iff the operation raised to its caller
    warned,     \* the warnings and errors the operation logged
    cache,      \* load_cached_data's entry for the call's cache key: <<>> or <<table>>
    locals,     \* get_margin_trading_summary's locals while it runs
    fetcher     \* the SectorFetcher's _index_stock_cache and _cache_timestamp

vars == <<pc, call, result, raised, warned, cache, locals, fetcher>>

----------------------------------------------------------------------------
(* Bounds of the model *)

MaxDay == 3         \* raw tables start on day 1..MaxDay
MaxLen == 2         \* enumerated raw tables have at most MaxLen rows
LongExtra == 1      \* a long raw table has TailN + LongExtra rows

----------------------------------------------------------------------------
(* Floating-point specials and numeric helpers *)

NaN  == -2000000001
PInf == 2000000002
NInf == -2000000002
Bad  == -2000000003

IsNum(x) == x \notin {NaN, PInf, NInf, Bad}

Abs(x) == IF x < 0 THEN -x ELSE x

\* numpy's round: p/q to the nearest integer, ties to the even one (q > 0)
RoundDiv(p, q) ==
    LET f == p \div q
        r == p % q
    IN  IF 2 * r < q THEN f
        ELSE IF 2 * r > q THEN f + 1
        ELSE IF f % 2 = 0 THEN f ELSE f + 1

\* round(p / q) in float arithmetic: x/0 is +-inf, 0/0 is nan
FDiv(p, q) ==
    IF ~IsNum(p) \/ ~IsNum(q) THEN NaN
    ELSE IF q = 0 THEN (IF p > 0 THEN PInf ELSE IF p < 0 THEN NInf ELSE NaN)
    ELSE IF q > 0 THEN RoundDiv(p, q)
    ELSE RoundDiv(-p, -q)

\* a + b and a - b on cells (no infinities reach a sum in this program)
FAdd(a, b) == IF IsNum(a) /\ IsNum(b) THEN a + b ELSE NaN
FSub(a, b) == IF IsNum(a) /\ IsNum(b) THEN a - b ELSE NaN

\* pd.to_numeric(errors='coerce'): a non-numeric cell becomes NaN
ToNumeric(x) == IF x = Bad THEN NaN ELSE x

\* Series.fillna(0)
FillNa0(x) == IF x = NaN THEN 0 ELSE x

----------------------------------------------------------------------------
(* Dates *)

\* strftime('%Y%m%d') of day d of January 2024, as the 8-digit number
Ymd(d) == 20240100 + d

\* pd.to_datetime(s, format='%Y%m%d'): the day of an 8-digit date string
ParseYmd(s) == s - 20240100

----------------------------------------------------------------------------
(* Tables *)

Columns(t) == IF t = <<>> THEN {} ELSE DOMAIN t[1]

\* (mutation) DataFrame.head(n) in place of tail(n)
TailRows_Head(t, n) == IF Len(t) <= n THEN t ELSE SubSeq(t, 1, n)

\* DataFrame.tail(n)
TailRows(t, n) == IF Len(t) <= n THEN t ELSE SubSeq(t, Len(t) - n + 1, Len(t))

DatesOf(t, col) == [i \in 1..Len(t) |-> t[i][col]]

\* the row r with column c set to v (added when absent)
SetCol(r, c, v) == [k \in DOMAIN r \cup {c} |-> IF k = c THEN v ELSE r[k]]

\* DataFrame.rename(columns=mapping): mapping is a function old name -> new name
Rename(t, mapping) ==
    [i \in 1..Len(t) |->
        LET old == DOMAIN t[i]
            new(c) == IF c \in DOMAIN mapping THEN mapping[c] ELSE c
        IN  [k \in {new(c) : c \in old} |->
                t[i][CHOOSE c \in old : new(c) = k]]]

----------------------------------------------------------------------------
(* MarginDataFetcher._merge_sh_sz_margin_data *)

TailN == 20

numeric_cols ==
    {"fin_buy", "fin_bal", "short_vol", "short_qty", "short_bal", "margin_total"}

\* t[(t.date >= start_dt) & (t.date <= end_dt)]
DateFilter(t, start_dt, end_dt) ==
    SelectSeq(t, LAMBDA r : r.date >= start_dt /\ r.date <= end_dt)

\* pd.merge(l, r, on='date'): the inner join, in the order of the left keys,
\* each left row with its matching right rows in the right table's order;
\* the pairs <<i, j>> of matching positions
MatchesOf(d, r) ==
    SelectSeq([j \in 1..Len(r) |-> j], LAMBDA j : r[j].date = d)

RECURSIVE JoinFrom(_, _, _)
JoinFrom(l, r, i) ==
    IF i > Len(l) THEN <<>>
    ELSE LET m == MatchesOf(l[i].date, r)
         IN  [k \in 1..Len(m) |-> <<i, m[k]>>] \o JoinFrom(l, r, i + 1)

InnerJoin(l, r) == JoinFrom(l, r, 1)

\* one side's contribution to a summed column
SideValue(x) == FillNa0(ToNumeric(x))

\* (mutation) the Shenzhen side is dropped from the sum
SumSides_ShOnly(a, b) == SideValue(a)

\* result[col] = sh_values + sz_values
SumSides(a, b) == SideValue(a) + SideValue(b)

\* the summed row of one joined pair of rows: the date re-formatted, and every
\* numeric column both sides carry (pd.merge suffixes only the shared columns)
MergedRow(l, r) ==
    LET shared == numeric_cols \cap DOMAIN l \cap DOMAIN r
    IN  [c \in {"date"} \cup shared |->
            IF c = "date" THEN Ymd(l.date) ELSE SumSides(l[c], r[c])]

\* The method: [out |-> the table returned, log |-> what it logged].
\* start_date and end_date are 8-digit date strings.
MergeShSz(sh_data, sz_data, start_date, end_date) ==
    IF sh_data = <<>> \/ sz_data = <<>>
    THEN [out |-> <<>>, log |-> {"empty_side"}]
    ELSE IF "date" \notin Columns(sh_data) \/ "date" \notin Columns(sz_data)
    THEN [out |-> <<>>, log |-> {"merge_failed"}]          \* KeyError, caught
    ELSE
    LET start_dt == ParseYmd(start_date)
        end_dt == ParseYmd(end_date)
        sh_in == DateFilter(sh_data, start_dt, end_dt)
        sz_in == DateFilter(sz_data, start_dt, end_dt)
        fallback == sh_in = <<>> \/ sz_in = <<>>
        sh_filtered == IF fallback THEN TailRows(sh_data, TailN) ELSE sh_in
        sz_filtered == IF fallback THEN TailRows(sz_data, TailN) ELSE sz_in
        log0 == IF fallback THEN {"range_empty_fallback"} ELSE {}
        merged == InnerJoin(sh_filtered, sz_filtered)
    IN  IF merged = <<>>
        THEN [out |-> <<>>, log |-> log0 \cup {"merged_empty"}]
        ELSE [out |-> [k \in 1..Len(merged) |->
                          MergedRow(sh_filtered[merged[k][1]],
                                    sz_filtered[merged[k][2]])],
              log |-> log0]

----------------------------------------------------------------------------
(* The raw tables an exchange feed can answer with *)

Exchanges == {"sh", "sz"}

\* The dates of a raw table: a run of len days from day first, oldest first or
\* newest first, and with dup its last row repeats the first row's date
ExDates(first, len, desc, dup) ==
    LET run == [i \in 1..len |-> IF dup /\ i = len /\ len > 1
                                 THEN first ELSE first + i - 1]
    IN  IF desc THEN [i \in 1..len |-> run[len + 1 - i]] ELSE run

\* the financing balance exchange e reports for day d (salt tells repeated
\* reports of a day apart); 100 and 50 on day 2
FinBal(e, d, salt) ==
    (IF e = "sh" THEN 100 ELSE 50) + 10 * ((d + 1) % 3) + salt

ShortBal(e) == IF e = "sh" THEN 10 ELSE 5

\* Profiles of a raw table:
\*   "fin_only"  only the financing balance is non-zero
\*   "full"      every column is reported and the total is consistent
\*   "bad_cell"  as full, but the first row's financing balance is a string
\*   "no_total"  as full, without the margin_total column
Profiles == {"fin_only", "full", "bad_cell", "no_total"}

ExRow(e, d, i, salt, profile) ==
    LET fin == FinBal(e, d, salt)
        short == IF profile = "fin_only" THEN 0 ELSE ShortBal(e)
        base == [date |-> d,
                 fin_buy |-> IF profile = "fin_only" THEN 0 ELSE 5 + d,
                 fin_bal |-> IF profile = "bad_cell" /\ i = 1 THEN Bad ELSE fin,
                 short_vol |-> IF profile = "fin_only" THEN 0 ELSE 2,
                 short_qty |-> IF profile = "fin_only" THEN 0 ELSE 3,
                 short_bal |-> short]
    IN  IF profile = "no_total" THEN base
        ELSE SetCol(base, "margin_total", fin + short)

ExTable(e, dates, profile) ==
    [i \in 1..Len(dates) |->
        ExRow(e, dates[i], i,
              IF \E j \in 1..(i - 1) : dates[j] = dates[i] THEN 1 ELSE 0,
              profile)]

DateShapes ==
    {ExDates(first, len, desc, dup) :
        first \in 1..MaxDay, len \in 0..MaxLen, desc \in BOOLEAN, dup \in BOOLEAN}

LongDates == [i \in 1..(TailN + LongExtra) |-> i]

ExTables(e) ==
    {ExTable(e, dates, profile) : dates \in DateShapes, profile \in Profiles}
    \cup {ExTable(e, LongDates, "full")}

\* a day on which no raw table has a row
FarDay == TailN + LongExtra + MaxDay

\* the queried ranges, as <<start_date, end_date>> strings
Ranges ==
    {<<Ymd(1), Ymd(MaxDay)>>, <<Ymd(2), Ymd(2)>>, <<Ymd(FarDay), Ymd(FarDay)>>}

----------------------------------------------------------------------------
(* MarginDataFetcher: the three providers and their column standardizers *)

akshare_mapping == [date |-> "trade_date", margin_total |-> "total_bal"]

\* _standardize_columns_akshare: rename, re-format the date, coerce four columns
StandardizeAkshare(df) ==
    LET renamed == Rename(df, akshare_mapping)
        coerced == {"fin_bal", "short_bal", "total_bal", "fin_buy"}
    IN  [i \in 1..Len(renamed) |->
            [c \in DOMAIN renamed[i] |->
                IF c = "trade_date" THEN Ymd(ParseYmd(renamed[i][c]))
                ELSE IF c \in coerced THEN ToNumeric(renamed[i][c])
                ELSE renamed[i][c]]]

\* A provider's answer resp: resp.kind is "absent" (the data source is not
\* configured), "error" (the request raised) or "ok" (raw tables returned).
\* _get_margin_data_akshare: [out |-> table, log |-> tags]
GetMarginDataAkshare(resp, start_date, end_date) ==
    IF resp.kind = "absent" THEN [out |-> <<>>, log |-> {}]
    ELSE IF resp.kind = "error" THEN [out |-> <<>>, log |-> {"akshare_failed"}]
    ELSE LET m == MergeShSz(resp.sh, resp.sz, start_date, end_date)
         IN  [out |-> IF m.out # <<>> THEN StandardizeAkshare(m.out) ELSE <<>>,
              log |-> m.log]

\* TuShare: one row per exchange and day, amounts in units of 10,000
tushare_sum_cols == {"rzye", "rzmre", "rzche", "rqye", "rqmcl", "rzrqye", "rqyl"}

tushare_mapping ==
    [trade_date |-> "trade_date", rzye |-> "fin_bal", rqye |-> "short_bal",
     rzrqye |-> "total_bal", rzmre |-> "fin_buy", rqmcl |-> "short_vol"]

WanToYuan == 10000

\* the sum of column c over the rows of df dated d (NaN cells are skipped)
RECURSIVE GroupSum(_, _, _, _)
GroupSum(df, d, c, i) ==
    IF i > Len(df) THEN 0
    ELSE (IF df[i].trade_date = d /\ IsNum(df[i][c]) THEN df[i][c] ELSE 0)
         + GroupSum(df, d, c, i + 1)

\* the elements of a finite set of integers, ascending
RECURSIVE SortedSeq(_)
SortedSeq(S) ==
    IF S = {} THEN <<>>
    ELSE LET lo == CHOOSE x \in S : \A y \in S : x <= y
         IN  <<lo>> \o SortedSeq(S \ {lo})

\* _merge_tushare_exchanges: groupby('trade_date').agg(sum).reset_index(), one
\* row per date in ascending date order; when a summed column is missing the
\* KeyError is caught and the table is returned as it came
MergeTushareExchanges(df) ==
    IF df = <<>> THEN [out |-> df, log |-> {}]
    ELSE IF ~(tushare_sum_cols \cup {"trade_date"} \subseteq Columns(df))
    THEN [out |-> df, log |-> {"tushare_merge_failed"}]
    ELSE LET keys == SortedSeq({df[i].trade_date : i \in 1..Len(df)})
         IN  [out |-> [k \in 1..Len(keys) |->
                          [c \in tushare_sum_cols \cup {"trade_date", "exchange_id"} |->
                              IF c = "trade_date" THEN keys[k]
                              ELSE IF c = "exchange_id" THEN "ALL"
                              ELSE GroupSum(df, keys[k], c, 1)]],
              log |-> {}]

\* _standardize_columns_tushare: rename and convert four columns to base units
StandardizeTushare(df) ==
    LET renamed == Rename(df, tushare_mapping)
        scaled == {"fin_bal", "short_bal", "total_bal", "fin_buy"}
    IN  [i \in 1..Len(renamed) |->
            [c \in DOMAIN renamed[i] |->
                IF c \in scaled /\ IsNum(ToNumeric(renamed[i][c]))
                THEN ToNumeric(renamed[i][c]) * WanToYuan
                ELSE IF c \in scaled THEN NaN
                ELSE renamed[i][c]]]

\* _get_margin_data_tushare
GetMarginDataTushare(resp) ==
    IF resp.kind = "absent" THEN [out |-> <<>>, log |-> {}]
    ELSE IF resp.kind = "error" THEN [out |-> <<>>, log |-> {"tushare_failed"}]
    ELSE IF resp.df = <<>> THEN [out |-> <<>>, log |-> {}]
    ELSE LET g == MergeTushareExchanges(resp.df)
         IN  [out |-> StandardizeTushare(g.out), log |-> g.log]

eastmoney_mapping ==
    [TRADE_DATE |-> "trade_date", RZYE |-> "fin_bal", RQYE |-> "short_bal",
     RZRQYE |-> "total_bal", RZMRE |-> "fin_buy", RQMCL |-> "short_vol",
     RQMCJE |-> "short_amt"]

\* _standardize_columns_eastmoney: rename, format the date, coerce five columns
StandardizeEastmoney(df) ==
    LET renamed == Rename(df, eastmoney_mapping)
        coerced == {"fin_bal", "short_bal", "total_bal", "fin_buy", "short_amt"}
    IN  [i \in 1..Len(renamed) |->
            [c \in DOMAIN renamed[i] |->
                IF c = "trade_date" THEN Ymd(renamed[i][c])
                ELSE IF c \in coerced THEN ToNumeric(renamed[i][c])
                ELSE renamed[i][c]]]

\* _get_margin_data_eastmoney (there is no "absent": the HTTP source is always tried)
GetMarginDataEastmoney(resp) ==
    IF resp.kind = "error" THEN [out |-> <<>>, log |-> {"eastmoney_failed"}]
    ELSE IF resp.df = <<>> THEN [out |-> <<>>, log |-> {}]
    ELSE [out |-> StandardizeEastmoney(resp.df), log |-> {}]

\* (mutation) the last of the longest in place of the first
MaxByLen_Last(data_frames) ==
    data_frames[CHOOSE i \in 1..Len(data_frames) :
        \A j \in 1..Len(data_frames) :
            \/ Len(data_frames[j]) < Len(data_frames[i])
            \/ Len(data_frames[j]) = Len(data_frames[i]) /\ j <= i]

\* max(data_frames, key=len): the first of the longest
MaxByLen(data_frames) ==
    data_frames[CHOOSE i \in 1..Len(data_frames) :
        \A j \in 1..Len(data_frames) :
            \/ Len(data_frames[j]) < Len(data_frames[i])
            \/ Len(data_frames[j]) = Len(data_frames[i]) /\ j >= i]

\* the non-empty provider tables, in the order they were appended
DataFrames(akshare_data, tushare_data, eastmoney_data) ==
    SelectSeq(<<akshare_data, tushare_data, eastmoney_data>>, LAMBDA df : df # <<>>)

\* the table get_margin_trading_summary returns once the providers answered
SelectSource(akshare_data, tushare_data, eastmoney_data) ==
    LET data_frames == DataFrames(akshare_data, tushare_data, eastmoney_data)
    IN  IF data_frames # <<>>
        THEN (IF akshare_data # <<>> THEN akshare_data ELSE MaxByLen(data_frames))
        ELSE <<>>

\* (mutation) the selection is cached even when it is empty
CacheAfterSelect_Always(use_cache, selected, entry) ==
    IF use_cache THEN <<[data |-> selected, fresh |-> TRUE]>> ELSE entry

\* the cache entry after the selection: saved only when some provider had data
CacheAfterSelect(use_cache, selected, entry) ==
    IF selected # <<>> /\ use_cache
    THEN <<[data |-> selected, fresh |-> TRUE]>>
    ELSE entry

\* load_cached_data: the cached table when there is a fresh entry, else None (<<>>)
LoadCachedData(entry) ==
    IF entry # <<>> /\ entry[1].fresh THEN <<entry[1].data>> ELSE <<>>

\* validate_date_range raises when start_date > end_date
ValidDateRange(start_date, end_date) == start_date <= end_date

----------------------------------------------------------------------------
(* MarginDataProcessor: series helpers *)

(* Derived column names, the source's suffixes in ASCII:                   *)
(*   net_fin 净融资额        fin_share 融资占两融比例                       *)
(*   short_share 融券占两融比例   maint_ratio 市场整体维持担保比例          *)
(*   fin_turnover 融资周转率                                               *)
(*   <col>_chg _日变化   <col>_pct1 _日变化率   <col>_pct5 _周变化率        *)
(*   <col>_pct20 _月变化率   <col>_MA<k>   <col>_MA<k>_dev _MA<k>_偏离度    *)
(*   <col>_RSI   <col>_boll_up 布林上轨   <col>_boll_mid 布林中轨           *)
(*   <col>_boll_low 布林下轨   <col>_boll_pos 布林位置                      *)
(*   total_to_market 两融余额占市场成交比                                  *)
(*   fin_buy_to_market 融资买入占市场成交比                                *)

\* The same sequence / row with its elements evaluated once (a function
\* constructor is otherwise evaluated again at every application)
ForceSeq(s) == SubSeq(s, 1, Len(s))
ForceRow(r) == r @@ <<>>

\* the column c of table t as a sequence
Col(t, c) == [i \in 1..Len(t) |-> t[i][c]]

\* table t with the columns of cells(i) set on row i
WithCols(t, cells(_)) == ForceSeq([i \in 1..Len(t) |-> cells(i) @@ t[i]])

Num0(x) == IF IsNum(x) THEN x ELSE 0

\* sums over the numeric cells of s[lo..hi]
RECURSIVE WinSum(_, _, _)
WinSum(s, lo, hi) ==
    IF lo > hi THEN 0 ELSE Num0(s[hi]) + WinSum(s, lo, hi - 1)

RECURSIVE WinSumSq(_, _, _)
WinSumSq(s, lo, hi) ==
    IF lo > hi THEN 0 ELSE Num0(s[hi]) * Num0(s[hi]) + WinSumSq(s, lo, hi - 1)

WinCount(s, lo, hi) == Cardinality({j \in lo..hi : IsNum(s[j])})

\* the first row of the window of the given length that ends at row i
WinLo(i, window) == IF i - window + 1 < 1 THEN 1 ELSE i - window + 1

\* Series.diff()
Diff(s, i) == IF i = 1 THEN NaN ELSE FSub(s[i], s[i - 1])

\* (mutation) the first periods rows read 0 instead of undefined
PctChange_ZeroStart(s, i, periods) ==
    IF i <= periods THEN 0
    ELSE IF ~IsNum(s[i]) \/ ~IsNum(s[i - periods]) THEN NaN
    ELSE FDiv(10000 * (s[i] - s[i - periods]), s[i - periods])

\* (Series.pct_change(periods) * 100).round(2), in hundredths
PctChange(s, i, periods) ==
    IF i <= periods THEN NaN
    ELSE IF ~IsNum(s[i]) \/ ~IsNum(s[i - periods]) THEN NaN
    ELSE FDiv(10000 * (s[i] - s[i - periods]), s[i - periods])

\* (mutation) the mean is undefined until the window is full
RollingMean_FullWindow(s, i, window) ==
    LET lo == WinLo(i, window)
        n == WinCount(s, lo, i)
    IN  IF i < window \/ n = 0 THEN NaN ELSE FDiv(100 * WinSum(s, lo, i), n)

\* Series.rolling(window, min_periods=1).mean().round(2), in hundredths
RollingMean(s, i, window) ==
    LET lo == WinLo(i, window)
        n == WinCount(s, lo, i)
    IN  IF n = 0 THEN NaN ELSE FDiv(100 * WinSum(s, lo, i), n)

\* ((value / ma - 1) * 100).round(2) for a rolling mean ma held in hundredths
Deviation(x, ma) ==
    IF ~IsNum(x) \/ ~IsNum(ma) THEN NaN
    ELSE FDiv(10000 * (100 * x - ma), ma)

----------------------------------------------------------------------------
(* MarginDataProcessor: RSI and Bollinger bands *)

RsiPeriod == 14
BollPeriod == 20
BollStdDev == 2

\* gain = delta.where(delta > 0, 0) and loss = -delta.where(delta < 0, 0)
Gain(s, i) == LET d == Diff(s, i) IN IF IsNum(d) /\ d > 0 THEN d ELSE 0
Loss(s, i) == LET d == Diff(s, i) IN IF IsNum(d) /\ d < 0 THEN -d ELSE 0

\* (mutation) rs itself, as a percentage, is reported
RsiOf_Rs(avg_gain, avg_loss) == FDiv(10000 * avg_gain, avg_loss)

\* (100 - 100 / (1 + avg_gain / avg_loss)).round(2), in hundredths; both
\* averages are taken over the same rows, so their sums stand for them.
\* avg_loss = 0 makes rs infinite and the RSI 100, or rs and the RSI undefined
RsiOf(avg_gain, avg_loss) ==
    IF avg_loss = 0 THEN (IF avg_gain > 0 THEN 10000 ELSE NaN)
    ELSE FDiv(10000 * avg_gain, avg_gain + avg_loss)

\* _calculate_rsi(series)[i]
CalculateRsi(s, i) ==
    LET lo == WinLo(i, RsiPeriod)
        gain == [j \in 1..i |-> Gain(s, j)]
        loss == [j \in 1..i |-> Loss(s, j)]
    IN  RsiOf(WinSum(gain, lo, i), WinSum(loss, lo, i))

\* the sign of a/b - c/d for a, c >= 0 and b, d > 0, without forming products
RECURSIVE FracCmp(_, _, _, _)
FracCmp(a, b, c, d) ==
    LET qa == a \div b
        qc == c \div d
        ra == a % b
        rc == c % d
    IN  IF qa # qc THEN (IF qa > qc THEN 1 ELSE -1)
        ELSE IF ra = 0 /\ rc = 0 THEN 0
        ELSE IF ra = 0 THEN -1
        ELSE IF rc = 0 THEN 1
        ELSE FracCmp(d, rc, b, ra)

\* For n >= 2 values with sum sm and dev = n * (sum of squares) - sm^2, so
\* that mean = sm / n and std^2 = dev / (n * (n - 1)) (ddof = 1): the sign of
\*   std - num / (root * n)   where scale = root^2
SqrtCmp(dev, n, num, scale) ==
    IF num < 0 THEN 1
    ELSE IF num = 0 THEN (IF dev = 0 THEN 0 ELSE 1)
    ELSE IF dev = 0 THEN -1
    ELSE FracCmp(scale, num, num * (n - 1), n * dev)

\* the sign of y - (k - 1/2) for the y with std = (a * k + b) / (root * n) at
\* y = k - 1/2
RootCmp(dev, n, a, b, scale, k) == SqrtCmp(dev, n, a * k + b, scale)

\* the first k = lo + step, step doubling, at which RootCmp is negative
RECURSIVE RootAbove(_, _, _, _, _, _, _)
RootAbove(dev, n, a, b, scale, lo, step) ==
    IF RootCmp(dev, n, a, b, scale, lo + step) < 0 THEN lo + step
    ELSE RootAbove(dev, n, a, b, scale, lo, 2 * step)

\* the largest k in lo..hi-1 with RootCmp >= 0, given it is >= 0 at lo, < 0 at hi
RECURSIVE RootSearch(_, _, _, _, _, _, _)
RootSearch(dev, n, a, b, scale, lo, hi) ==
    IF hi - lo <= 1 THEN lo
    ELSE LET mid == (lo + hi) \div 2
         IN  IF RootCmp(dev, n, a, b, scale, mid) >= 0
             THEN RootSearch(dev, n, a, b, scale, mid, hi)
             ELSE RootSearch(dev, n, a, b, scale, lo, mid)

\* y rounded to the nearest integer, the even one on a tie; lo <= y
RootRound(dev, n, a, b, scale, lo) ==
    LET k == RootSearch(dev, n, a, b, scale, lo,
                        RootAbove(dev, n, a, b, scale, lo, 1))
    IN  IF RootCmp(dev, n, a, b, scale, k) = 0 /\ k % 2 # 0 THEN k - 1 ELSE k

\* (mean + BollStdDev * std).round(2) in hundredths:
\*   100 * (mean + BollStdDev * std) >= k - 1/2   iff
\*   std >= ((2k - 1) * n - 200 * sm) / (200 * BollStdDev * n)
BandRound(sm, dev, n) ==
    RootRound(dev, n, 2 * n, -n - 200 * sm,
              (200 * BollStdDev) * (200 * BollStdDev), (100 * sm) \div n)

\* (mutation) the upper band is a standard deviation below the mean
UpperBand_Below(sm, dev, n) == -BandRound(-sm, dev, n)

UpperBand(sm, dev, n) == BandRound(sm, dev, n)
LowerBand(sm, dev, n) == -BandRound(-sm, dev, n)

\* _calculate_bollinger_bands(series)[i], each band in hundredths
CalculateBollingerBands(s, i) ==
    LET lo == WinLo(i, BollPeriod)
        n == WinCount(s, lo, i)
        sm == WinSum(s, lo, i)
        dev == n * WinSumSq(s, lo, i) - sm * sm
    IN  [upper |-> IF n < 2 THEN NaN ELSE UpperBand(sm, dev, n),
         middle |-> IF n < 1 THEN NaN ELSE FDiv(100 * sm, n),
         lower |-> IF n < 2 THEN NaN ELSE LowerBand(sm, dev, n)]

\* ((value - lower) / (upper - lower) * 100).round(2) on the rounded bands
BandPosition(x, bands) ==
    IF ~IsNum(x) \/ ~IsNum(bands.upper) \/ ~IsNum(bands.lower) THEN NaN
    ELSE FDiv(10000 * (100 * x - bands.lower), bands.upper - bands.lower)

----------------------------------------------------------------------------
(* MarginDataProcessor: the stages of process_margin_summary *)

base_ratio == 180
MaintFloor == 150
MaintCeil == 250

change_columns == <<"fin_bal", "short_bal", "total_bal", "fin_buy">>
ma_columns == <<"fin_bal", "short_bal", "total_bal">>
periods == <<5, 10, 20, 60>>
rsi_columns == <<"fin_bal", "total_bal">>
bollinger_columns == <<"fin_bal", "total_bal">>

\* DataFrame.sort_values(c): ascending; rows of equal key keep their order
\* (numpy's default sort is an insertion sort on arrays this short)
SortValues(t, c) ==
    LET n == Len(t)
        rank == ForceSeq([i \in 1..n |->
                    1 + Cardinality({j \in 1..n :
                            \/ t[j][c] < t[i][c]
                            \/ t[j][c] = t[i][c] /\ j < i})])
    IN  ForceSeq([k \in 1..n |-> t[CHOOSE i \in 1..n : rank[i] = k]])

\* (mutation) the column keeps its date texts
ToDatetime_Text(t, c) == t

\* pd.to_datetime(column, format='%Y%m%d')
ToDatetime(t, c) == WithCols(t, LAMBDA i : c :> ParseYmd(t[i][c]))

\* (part / whole * 100).round(2), in hundredths
ShareOf(part, whole) ==
    IF ~IsNum(part) \/ ~IsNum(whole) THEN NaN ELSE FDiv(10000 * part, whole)

\* (part / whole * 100).round(4), in ten-thousandths
Share4Of(part, whole) ==
    IF ~IsNum(part) \/ ~IsNum(whole) THEN NaN ELSE FDiv(1000000 * part, whole)

\* (base_ratio + pct_change() * 100 * 0.5).clip(150, 250).round(2), in hundredths
MaintenanceRatio(s, i) ==
    IF i = 1 THEN NaN
    ELSE IF ~IsNum(s[i]) \/ ~IsNum(s[i - 1]) THEN NaN
    ELSE LET raw == FDiv(100 * base_ratio * s[i - 1] + 5000 * (s[i] - s[i - 1]),
                         s[i - 1])
         IN  IF raw = NaN THEN NaN
             ELSE IF raw > 100 * MaintCeil THEN 100 * MaintCeil
             ELSE IF raw < 100 * MaintFloor THEN 100 * MaintFloor
             ELSE raw

\* (mutation) the combined balance is always recomputed
TotalOf_Recomputed(row, supplied) == FAdd(row.fin_bal, row.short_bal)

\* the combined balance of a row: the supplied one, else financing + short
TotalOf(row, supplied) ==
    IF supplied THEN row.total_bal ELSE FAdd(row.fin_bal, row.short_bal)

\* _calculate_basic_metrics
CalculateBasicMetrics(df) ==
    LET cols == Columns(df)
        both == {"fin_bal", "short_bal"} \subseteq cols
        supplied == "total_bal" \in cols
        totalled ==
            IF both
            THEN WithCols(df, LAMBDA i :
                    ("total_bal" :> TotalOf(df[i], supplied))
                    @@ ("net_fin" :> FSub(df[i].fin_bal, df[i].short_bal)))
            ELSE df
        has_total == "total_bal" \in Columns(totalled)
        total == Col(totalled, "total_bal")
        shared ==
            IF has_total /\ WinSum(total, 1, Len(df)) > 0
            THEN WithCols(totalled, LAMBDA i :
                    (IF "fin_bal" \in cols
                     THEN "fin_share" :> ShareOf(df[i].fin_bal, total[i])
                     ELSE <<>>)
                    @@ (IF "short_bal" \in cols
                        THEN "short_share" :> ShareOf(df[i].short_bal, total[i])
                        ELSE <<>>))
            ELSE totalled
        maintained ==
            IF has_total
            THEN WithCols(shared, LAMBDA i :
                    "maint_ratio" :> IF Len(df) > 1
                                     THEN MaintenanceRatio(total, i)
                                     ELSE 100 * base_ratio)
            ELSE shared
    IN  IF {"fin_buy", "fin_bal"} \subseteq cols
        THEN WithCols(maintained, LAMBDA i :
                "fin_turnover" :> Share4Of(df[i].fin_buy, df[i].fin_bal))
        ELSE maintained

\* the four change columns of one source column on row i
ChangeOf(s, col, i) ==
    ((col \o "_chg") :> Diff(s, i))
    @@ ((col \o "_pct1") :> PctChange(s, i, 1))
    @@ ((col \o "_pct5") :> PctChange(s, i, 5))
    @@ ((col \o "_pct20") :> PctChange(s, i, 20))

RECURSIVE ChangeCells(_, _, _)
ChangeCells(df, i, k) ==
    IF k > Len(change_columns) THEN <<>>
    ELSE (IF change_columns[k] \in Columns(df)
          THEN ChangeOf(Col(df, change_columns[k]), change_columns[k], i)
          ELSE <<>>)
         @@ ChangeCells(df, i, k + 1)

\* _calculate_change_rates
CalculateChangeRates(df) == WithCols(df, LAMBDA i : ChangeCells(df, i, 1))

\* the rolling mean of each period and the deviation from it, on row i
RECURSIVE MaOf(_, _, _, _)
MaOf(s, col, i, p) ==
    IF p > Len(periods) THEN <<>>
    ELSE LET ma_col == col \o "_MA" \o ToString(periods[p])
             ma == RollingMean(s, i, periods[p])
         IN  (ma_col :> ma)
             @@ ((ma_col \o "_dev") :> Deviation(s[i], ma))
             @@ MaOf(s, col, i, p + 1)

RECURSIVE MaCells(_, _, _)
MaCells(df, i, k) ==
    IF k > Len(ma_columns) THEN <<>>
    ELSE (IF ma_columns[k] \in Columns(df)
          THEN MaOf(Col(df, ma_columns[k]), ma_columns[k], i, 1)
          ELSE <<>>)
         @@ MaCells(df, i, k + 1)

\* _calculate_moving_averages
CalculateMovingAverages(df) == WithCols(df, LAMBDA i : MaCells(df, i, 1))

\* market_df.groupby('交易日期').agg({'成交金额': 'sum'}) at one date
MarketSum(market_df, d) ==
    LET hits == SelectSeq(market_df, LAMBDA r : ParseYmd(r.trade_date) = d)
    IN  IF hits = <<>> THEN NaN ELSE WinSum(Col(hits, "turnover"), 1, Len(hits))

\* _calculate_market_ratios: [out |-> table, log |-> tags]
CalculateMarketRatios(margin_df, market_df) ==
    IF "trade_date" \notin Columns(market_df)
    THEN [out |-> margin_df, log |-> {}]
    ELSE IF \/ "turnover" \notin Columns(market_df)
            \/ "trade_date" \notin Columns(margin_df)
            \/ \E i \in 1..Len(market_df) : market_df[i].trade_date = Bad
    THEN [out |-> margin_df, log |-> {"market_ratio_failed"}]   \* caught
    ELSE
    LET cols == Columns(margin_df)
        own == "turnover" \in cols      \* then the market's is suffixed
        merged == WithCols(margin_df, LAMBDA i :
                    (IF own THEN "turnover_market" ELSE "turnover")
                        :> MarketSum(market_df, margin_df[i].trade_date))
        ratios == WithCols(merged, LAMBDA i :
                    (IF "total_bal" \in cols
                     THEN "total_to_market"
                            :> Share4Of(merged[i].total_bal, merged[i].turnover)
                     ELSE <<>>)
                    @@ (IF "fin_buy" \in cols
                        THEN "fin_buy_to_market"
                            :> Share4Of(merged[i].fin_buy, merged[i].turnover)
                        ELSE <<>>))
    IN  [out |-> ratios, log |-> {}]

\* the RSI column of each RSI source column on row i
RECURSIVE RsiCells(_, _, _)
RsiCells(df, i, k) ==
    IF k > Len(rsi_columns) THEN <<>>
    ELSE (IF rsi_columns[k] \in Columns(df)
          THEN (rsi_columns[k] \o "_RSI")
                    :> CalculateRsi(Col(df, rsi_columns[k]), i)
          ELSE <<>>)
         @@ RsiCells(df, i, k + 1)

\* the three bands of one source column on row i, and the position within them
BollOf(s, col, i) ==
    LET bands == CalculateBollingerBands(s, i)
    IN  ((col \o "_boll_up") :> bands.upper)
        @@ ((col \o "_boll_mid") :> bands.middle)
        @@ ((col \o "_boll_low") :> bands.lower)
        @@ ((col \o "_boll_pos") :> BandPosition(s[i], bands))

RECURSIVE BollCells(_, _, _)
BollCells(df, i, k) ==
    IF k > Len(bollinger_columns) THEN <<>>
    ELSE (IF bollinger_columns[k] \in Columns(df)
          THEN BollOf(Col(df, bollinger_columns[k]), bollinger_columns[k], i)
          ELSE <<>>)
         @@ BollCells(df, i, k + 1)

\* _calculate_statistical_metrics
CalculateStatisticalMetrics(df) ==
    WithCols(df, LAMBDA i : RsiCells(df, i, 1) @@ BollCells(df, i, 1))

\* a cell of some row of column c is a non-numeric string
HasBad(t, c) == c \in Columns(t) /\ \E i \in 1..Len(t) : t[i][c] = Bad

\* arithmetic on a column with a string cell raises TypeError: in
\* _calculate_basic_metrics (the sum and difference of the two balances, the
\* total's sum(), the turnover division)
BasicRaises(df) ==
    LET cols == Columns(df)
    IN  \/ {"fin_bal", "short_bal"} \subseteq cols
           /\ (HasBad(df, "fin_bal") \/ HasBad(df, "short_bal"))
        \/ HasBad(df, "total_bal")
        \/ {"fin_buy", "fin_bal"} \subseteq cols
           /\ (HasBad(df, "fin_buy") \/ HasBad(df, "fin_bal"))

\* ... and in _calculate_change_rates (diff() of a tracked column)
ChangeRaises(df) == \E k \in 1..Len(change_columns) : HasBad(df, change_columns[k])

\* process_margin_summary(margin_data, market_data): [out |-> the table
\* returned, log |-> what it logged].  market_data = <<>> stands for both None
\* and an empty table.  An exception inside the try block is logged and the
\* table of the last completed stage is returned.
ProcessMarginSummary(margin_data, market_data) ==
    IF margin_data = <<>> THEN [out |-> <<>>, log |-> {"margin_empty"}]
    ELSE
    LET has_date == "trade_date" \in Columns(margin_data)
        sorted == IF has_date
                  THEN SortValues(ToDatetime(margin_data, "trade_date"), "trade_date")
                  ELSE margin_data
        basic == CalculateBasicMetrics(sorted)
        changed == CalculateChangeRates(basic)
        averaged == CalculateMovingAverages(changed)
        ratioed == IF market_data # <<>>
                   THEN CalculateMarketRatios(averaged, market_data)
                   ELSE [out |-> averaged, log |-> {}]
    IN  IF HasBad(margin_data, "trade_date")
        THEN [out |-> margin_data, log |-> {"process_failed"}]
        ELSE IF BasicRaises(sorted)
        THEN [out |-> sorted, log |-> {"process_failed"}]
        ELSE IF ChangeRaises(basic)
        THEN [out |-> basic, log |-> {"process_failed"}]
        ELSE [out |-> CalculateStatisticalMetrics(ratioed.out),
              log |-> ratioed.log]

\* the caller's market table after process_margin_summary returned with the
\* given log: _calculate_market_ratios, when it is reached, assigns the parsed
\* dates to market_df itself
MarketAfter(margin_data, market_data, log) ==
    IF margin_data = <<>> \/ market_data = <<>> THEN market_data
    ELSE IF "process_failed" \in log THEN market_data
    ELSE IF "trade_date" \notin Columns(market_data) \/ HasBad(market_data, "trade_date")
    THEN market_data
    ELSE ToDatetime(market_data, "trade_date")

----------------------------------------------------------------------------
(* MarginDataProcessor.analyze_margin_trends *)

\* the text 'N/A'
NA == -2000000004

\* a datetime cell is a day number, a date string is its 8-digit number
IsDateString(x) == x > Ymd(0)

\* format_number(num / den): the number shown, in hundredths, and its unit
FormatNumber(num, den) ==
    IF ~IsNum(num) THEN [shown |-> NA, unit |-> ""]
    ELSE IF Abs(num) \div den >= 100000000
    THEN [shown |-> FDiv(num, 1000000 * den), unit |-> "yi"]
    ELSE IF Abs(num) \div den >= 10000
    THEN [shown |-> FDiv(num, 100 * den), unit |-> "wan"]
    ELSE [shown |-> FDiv(100 * num, den), unit |-> ""]

\* the numeric cells of a column, as a set
NumCells(s) == {s[j] : j \in {i \in 1..Len(s) : IsNum(s[i])}}

ColMin(s) == IF NumCells(s) = {} THEN NaN
             ELSE CHOOSE x \in NumCells(s) : \A y \in NumCells(s) : x <= y

ColMax(s) == IF NumCells(s) = {} THEN NaN
             ELSE CHOOSE x \in NumCells(s) : \A y \in NumCells(s) : x >= y

\* f"{std / avg * 100:.2f}%" of a column with a positive mean, in hundredths:
\*   10000 * std / avg >= k - 1/2   iff   std >= (2k - 1) * sm / (20000 * n)
Volatility(s) ==
    LET n == WinCount(s, 1, Len(s))
        sm == WinSum(s, 1, Len(s))
        dev == n * WinSumSq(s, 1, Len(s)) - sm * sm
    IN  IF sm <= 0 THEN NA
        ELSE IF n < 2 THEN NaN
        ELSE RootRound(dev, n, 2 * sm, -sm, 400000000, 0)

\* the '两融余额分析' section
BalanceSection(s) ==
    LET n == WinCount(s, 1, Len(s))
        sm == WinSum(s, 1, Len(s))
    IN  [latest |-> FormatNumber(s[Len(s)], 1),
         lowest |-> FormatNumber(ColMin(s), 1),
         highest |-> FormatNumber(ColMax(s), 1),
         average |-> IF n = 0 THEN FormatNumber(NaN, 1) ELSE FormatNumber(sm, n),
         volatility |-> IF n = 0 THEN NA ELSE Volatility(s)]

\* (part / whole * 100) if whole > 0 else 0, as f"{...:.2f}%" shows it
LatestShare(part, whole) ==
    IF IsNum(whole) /\ whole > 0 THEN ShareOf(part, whole) ELSE 0

\* the '融资融券结构' section
StructureSection(last) ==
    [fin_ratio |-> LatestShare(last.fin_bal, last.total_bal),
     short_ratio |-> LatestShare(last.short_bal, last.total_bal),
     fin_bal |-> FormatNumber(last.fin_bal, 1),
     short_bal |-> FormatNumber(last.short_bal, 1)]

\* (mutation) the mean of no defined value is 0
RecentMean_ZeroWhenEmpty(s) ==
    LET lo == WinLo(Len(s), 5)
        tail == {s[j] : j \in lo..Len(s)}
        n == WinCount(s, lo, Len(s))
    IN  IF PInf \in tail /\ NInf \in tail THEN [special |-> NaN]
        ELSE IF PInf \in tail THEN [special |-> PInf]
        ELSE IF NInf \in tail THEN [special |-> NInf]
        ELSE IF n = 0 THEN [special |-> 0, sum |-> 0, count |-> 1]
        ELSE [special |-> 0, sum |-> WinSum(s, lo, Len(s)), count |-> n]

\* df[col].tail(5).mean() of a column held in hundredths, as [sum, count],
\* or as [special |-> ...] when it is not a finite number
RecentMean(s) ==
    LET lo == WinLo(Len(s), 5)
        tail == {s[j] : j \in lo..Len(s)}
        n == WinCount(s, lo, Len(s))
    IN  IF PInf \in tail /\ NInf \in tail THEN [special |-> NaN]
        ELSE IF PInf \in tail THEN [special |-> PInf]
        ELSE IF NInf \in tail THEN [special |-> NInf]
        ELSE IF n = 0 THEN [special |-> NaN]
        ELSE [special |-> 0, sum |-> WinSum(s, lo, Len(s)), count |-> n]

\* (mutation) a mean of exactly 1 percent already counts as fast rising
TrendOf_AtLeast(m) ==
    IF m.special = PInf THEN "fast_rising"
    ELSE IF m.special # 0 THEN "fast_falling"
    ELSE IF m.sum >= 100 * m.count THEN "fast_rising"
    ELSE IF m.sum > 10 * m.count THEN "mild_rising"
    ELSE IF m.sum > -10 * m.count THEN "flat"
    ELSE IF m.sum > -100 * m.count THEN "mild_falling"
    ELSE "fast_falling"

\* the trend label: the thresholds 1, 0.1, -0.1 and -1 percent
TrendOf(m) ==
    IF m.special = PInf THEN "fast_rising"
    ELSE IF m.special # 0 THEN "fast_falling"
    ELSE IF m.sum > 100 * m.count THEN "fast_rising"
    ELSE IF m.sum > 10 * m.count THEN "mild_rising"
    ELSE IF m.sum > -10 * m.count THEN "flat"
    ELSE IF m.sum > -100 * m.count THEN "mild_falling"
    ELSE "fast_falling"

\* the '趋势分析' section
TrendSection(s) ==
    LET m == RecentMean(s)
    IN  [recent_change |-> IF m.special # 0 THEN m.special ELSE FDiv(m.sum, m.count),
         trend |-> TrendOf(m)]

\* (mutation) an RSI of exactly 70 already counts as overbought
RiskOf_AtLeast(rsi) ==
    IF ~IsNum(rsi) THEN "oversold"
    ELSE IF rsi >= 7000 THEN "high"
    ELSE IF rsi > 5000 THEN "medium"
    ELSE IF rsi > 3000 THEN "low"
    ELSE "oversold"

\* the risk tier of an RSI held in hundredths: the thresholds 70, 50 and 30
RiskOf(rsi) ==
    IF ~IsNum(rsi) THEN "oversold"
    ELSE IF rsi > 7000 THEN "high"
    ELSE IF rsi > 5000 THEN "medium"
    ELSE IF rsi > 3000 THEN "low"
    ELSE "oversold"

\* the '风险评估' section
RiskSection(s) == [rsi |-> s[Len(s)], risk_level |-> RiskOf(s[Len(s)])]

\* analyze_margin_trends(df): the mapping returned, <<>> being the empty one.
\* Sections: overview 数据概况, balance 两融余额分析, structure 融资融券结构,
\* trend 趋势分析, risk 风险评估, error 错误
AnalyzeMarginTrends(df) ==
    IF df = <<>> THEN <<>>
    ELSE
    LET cols == Columns(df)
        n == Len(df)
        dates == Col(df, "trade_date")
        overview ==
            "overview" :> [start |-> IF "trade_date" \in cols
                                     THEN Ymd(ColMin(dates)) ELSE NA,
                           end |-> IF "trade_date" \in cols
                                   THEN Ymd(ColMax(dates)) ELSE NA,
                           days |-> n]
        balance ==
            IF "total_bal" \in cols
            THEN "balance" :> BalanceSection(Col(df, "total_bal")) ELSE <<>>
        structure ==
            IF {"fin_bal", "short_bal", "total_bal"} \subseteq cols
            THEN "structure" :> StructureSection(df[n]) ELSE <<>>
        trend ==
            IF "total_bal_pct1" \in cols
            THEN "trend" :> TrendSection(Col(df, "total_bal_pct1")) ELSE <<>>
        risk ==
            IF "total_bal_RSI" \in cols
            THEN "risk" :> RiskSection(Col(df, "total_bal_RSI")) ELSE <<>>
    IN  IF "trade_date" \in cols /\ \E i \in 1..n : IsDateString(df[i].trade_date)
        THEN "error" :> "strftime"      \* a str has no strftime; caught
        ELSE IF HasBad(df, "total_bal")
        THEN overview @@ ("error" :> "type_error")      \* min() of str and int
        ELSE IF /\ {"fin_bal", "short_bal", "total_bal"} \subseteq cols
                /\ (df[n].fin_bal = Bad \/ df[n].short_bal = Bad)
        THEN overview @@ balance @@ ("error" :> "type_error")
        ELSE overview @@ balance @@ structure @@ trend @@ risk

----------------------------------------------------------------------------
(* Sector tables *)

(* Column names of the sector tables:                                      *)
(*   stock_code 股票代码   stock_name 股票名称   code 代码   name 名称      *)
(*   weight 权重   pct 涨跌幅   turnover 换手率   inflow 主力净流入         *)
(*   volume 成交量   sector 板块   index_code 指数代码   funds 主力资金     *)
(*   rising_count 上涨股票数   total_count 总股票数   rising_ratio 上涨比例 *)
(*   constituents 成分股数据                                               *)
(* Units: pct and turnover in tenths of a percent, weight in tenths,       *)
(* inflow in 万元, funds in hundredths of 亿元.  An unrounded quotient is   *)
(* the fraction [num, den] of the column's unit.                           *)

Min(a, b) == IF a < b THEN a ELSE b

SumCol(t, c) == WinSum(Col(t, c), 1, Len(t))

\* sum of column a times column b
RECURSIVE SumProduct(_, _, _, _)
SumProduct(t, a, b, i) ==
    IF i > Len(t) THEN 0 ELSE t[i][a] * t[i][b] + SumProduct(t, a, b, i + 1)

\* len(df[df[c] > bound]) and len(df[df[c] < bound])
CountAbove(t, c, bound) == Cardinality({i \in 1..Len(t) : t[i][c] > bound})
CountBelow(t, c, bound) == Cardinality({i \in 1..Len(t) : t[i][c] < bound})

\* df[df[c] > 0] and df[df[c] < 0]
Positive(t, c) == SelectSeq(t, LAMBDA r : r[c] > 0)
Negative(t, c) == SelectSeq(t, LAMBDA r : r[c] < 0)

\* DataFrame.nlargest(k, c): the k rows of largest c, largest first; among
\* equal values the earlier row first
NLargest(t, k, c) ==
    LET n == Len(t)
        rank == ForceSeq([i \in 1..n |->
                    1 + Cardinality({j \in 1..n :
                            \/ t[j][c] > t[i][c]
                            \/ t[j][c] = t[i][c] /\ j < i})])
    IN  ForceSeq([r \in 1..Min(k, n) |-> t[CHOOSE i \in 1..n : rank[i] = r]])

\* DataFrame.nsmallest(k, c)
NSmallest(t, k, c) ==
    LET n == Len(t)
        rank == ForceSeq([i \in 1..n |->
                    1 + Cardinality({j \in 1..n :
                            \/ t[j][c] < t[i][c]
                            \/ t[j][c] = t[i][c] /\ j < i})])
    IN  ForceSeq([r \in 1..Min(k, n) |-> t[CHOOSE i \in 1..n : rank[i] = r]])

\* df[cols].to_dict('records')
Records(t, cols) == [i \in 1..Len(t) |-> [c \in cols |-> t[i][c]]]

\* part / whole * 100 as f"{...:.1f}%" shows it, in tenths
Percent1(part, whole) == FDiv(1000 * part, whole)

----------------------------------------------------------------------------
(* SectorFetcher._aggregate_sector_data *)

\* 9.5 and 3 percent
LimitUpPct == 95
StrongPct == 30

\* index_stock.get(index_code, f'指数{index_code}')
IndexName(index_stock, index_code) ==
    IF index_code \in DOMAIN index_stock THEN index_stock[index_code]
    ELSE "index_" \o index_code

\* (mutation) the plain mean of the column
WeightedMean_Plain(t, c) ==
    [num |-> SumCol(t, c), den |-> Len(t)]

\* (df[c] * df['权重']).sum() / total_weight
WeightedMean(t, c) ==
    [num |-> SumProduct(t, c, "weight", 1), den |-> SumCol(t, "weight")]

\* _aggregate_sector_data(stock_data, index_code): a table of one snapshot
\* row, or the empty table; index_stock is what get_index_stock_info returns
AggregateSectorData(stock_data, index_code, index_stock) ==
    IF stock_data = <<>> THEN <<>>
    ELSE IF ~({"weight", "pct", "turnover", "inflow"} \subseteq Columns(stock_data))
    THEN <<>>                                   \* KeyError, caught
    ELSE IF SumCol(stock_data, "weight") = 0 THEN <<>>
    ELSE
    LET rising_stocks == CountAbove(stock_data, "pct", 0)
        total_stocks == Len(stock_data)
    IN  <<[sector |-> IndexName(index_stock, index_code),
           index_code |-> index_code,
           pct |-> WeightedMean(stock_data, "pct"),
           funds |-> [num |-> SumProduct(stock_data, "inflow", "weight", 1),
                      den |-> 1000],
           turnover |-> WeightedMean(stock_data, "turnover"),
           rising_count |-> rising_stocks,
           total_count |-> total_stocks,
           rising_ratio |-> [num |-> 100 * rising_stocks, den |-> total_stocks],
           constituents |-> stock_data]>>

----------------------------------------------------------------------------
(* SectorFetcher.get_sector_data_by_index *)

\* record.get(key, default)
Get(row, key, default) == IF key \in DOMAIN row THEN row[key] ELSE default

\* feed[feed['代码'] == stock_code]
MatchCode(feed, stock_code) == SelectSeq(feed, LAMBDA r : r.code = stock_code)

\* the record _get_stocks_realtime_data builds for one constituent from the
\* fund-flow feed (net inflow in 元) and the quote feed; a feed that could
\* not be fetched is the empty table
StockRecord(constituent, fund_flow_data, stock_info_data) ==
    LET flow_match == IF fund_flow_data = <<>> THEN <<>>
                      ELSE MatchCode(fund_flow_data, constituent.stock_code)
        info_match == IF stock_info_data = <<>> THEN <<>>
                      ELSE MatchCode(stock_info_data, constituent.stock_code)
        inflow == IF flow_match # <<>> /\ "main_net" \in DOMAIN flow_match[1]
                  THEN flow_match[1].main_net \div 10000 ELSE 0
        flow_pct == IF flow_match # <<>> THEN Get(flow_match[1], "pct", 0) ELSE 0
        flow_price == IF flow_match # <<>> THEN Get(flow_match[1], "price", 0) ELSE 0
        info == IF info_match # <<>> THEN info_match[1] ELSE <<>>
    IN  [stock_code |-> constituent.stock_code,
         stock_name |-> constituent.stock_name,
         weight |-> constituent.weight,
         price |-> IF flow_price = 0 THEN Get(info, "price", 0) ELSE flow_price,
         pct |-> IF flow_pct = 0 THEN Get(info, "pct", 0) ELSE flow_pct,
         inflow |-> inflow,
         turnover |-> Get(info, "turnover", 0),
         volume |-> Get(info, "volume", 0),
         amount |-> Get(info, "amount", 0)]

\* _get_stocks_realtime_data(constituents) with what the two feeds answered;
\* constituents come from _process_constituents_data and carry code, name and
\* weight.  Dividing a non-numeric net inflow raises, and that is caught.
GetStocksRealtimeData(constituents, fund_flow_data, stock_info_data) ==
    IF \E i \in 1..Len(constituents), k \in 1..Len(fund_flow_data) :
          /\ fund_flow_data[k].code = constituents[i].stock_code
          /\ Get(fund_flow_data[k], "main_net", 0) = Bad
    THEN <<>>                                   \* TypeError, caught
    ELSE [i \in 1..Len(constituents) |->
            StockRecord(constituents[i], fund_flow_data, stock_info_data)]

\* the constituent list of the historical snapshot: weights only
ZeroedConstituents(constituents) ==
    [i \in 1..Len(constituents) |->
        [stock_code |-> constituents[i].stock_code,
         stock_name |-> constituents[i].stock_name,
         weight |-> constituents[i].weight,
         pct |-> 0, inflow |-> 0, price |-> 0, turnover |-> 0]]

\* the snapshot built from the latest row of the history
FallbackData(latest_record, index_code, index_stock, constituents) ==
    <<[sector |-> IndexName(index_stock, index_code),
       index_code |-> index_code,
       pct |-> [num |-> Get(latest_record, "pct", 0), den |-> 1],
       funds |-> [num |-> Get(latest_record, "inflow", 0), den |-> 100],
       turnover |-> [num |-> Get(latest_record, "turnover", 0), den |-> 1],
       rising_count |-> Get(latest_record, "rising_count", 0),
       total_count |-> Get(latest_record, "total_count", 0),
       rising_ratio |-> [num |-> Get(latest_record, "rising_ratio", 0), den |-> 1],
       constituents |-> ZeroedConstituents(constituents)]>>

\* sector_data.empty or sector_data.iloc[0].get('涨跌幅', 0) == 0
RealtimeInvalid(sector_data) ==
    sector_data = <<>> \/ sector_data[1].pct.num = 0

\* get_sector_data_by_index(index_code).  constituents and constituents_again
\* are the two answers of get_index_constituents, fund_flow_data and
\* stock_info_data the feeds' answers, history_data what
\* get_sector_history_by_index returns (sorted by date).
\* [out |-> the table returned, log |-> what was logged, stock_data and
\* sector_data |-> the real-time table and its snapshot]
GetSectorDataByIndex(index_code, constituents, constituents_again, fund_flow_data, stock_info_data, history_data, index_stock) ==
    IF constituents = <<>>
    THEN [out |-> <<>>, log |-> {"no_constituents"},
          stock_data |-> <<>>, sector_data |-> <<>>]
    ELSE
    LET stock_data == GetStocksRealtimeData(constituents, fund_flow_data, stock_info_data)
        sector_data == AggregateSectorData(stock_data, index_code, index_stock)
        back == [stock_data |-> stock_data, sector_data |-> sector_data]
    IN  IF stock_data = <<>>
        THEN [out |-> <<>>, log |-> {"no_realtime"}] @@ back
        ELSE IF ~RealtimeInvalid(sector_data)
        THEN [out |-> sector_data, log |-> {}] @@ back
        ELSE IF history_data = <<>>
        THEN [out |-> sector_data, log |-> {"realtime_invalid"}] @@ back
        ELSE [out |-> FallbackData(history_data[Len(history_data)], index_code,
                                   index_stock, constituents_again),
              log |-> {"realtime_invalid", "use_history"}] @@ back

----------------------------------------------------------------------------
(* SectorFetcher.get_index_constituents *)

\* float(row['权重']) if row['权重'] else 1.0, and 1.0 without the column
RawWeight(row) ==
    IF "weight" \in DOMAIN row /\ row.weight # 0 THEN row.weight ELSE 1

\* result_df.sort_values('权重', ascending=False): the heavier first, equal
\* weights in the order of the rows
SortByWeight(t) ==
    LET n == Len(t)
        rank == [i \in 1..n |->
                    1 + Cardinality({j \in 1..n :
                            \/ t[j].weight > t[i].weight
                            \/ t[j].weight = t[i].weight /\ j < i})]
    IN  [k \in 1..n |-> t[CHOOSE i \in 1..n : rank[i] = k]]

\* result_df['权重'] / total_weight, as a fraction
Normalized(weight, total_weight) ==
    IF total_weight > 0 THEN [num |-> weight, den |-> total_weight]
    ELSE [num |-> weight, den |-> 1]

\* _process_constituents_data(data, index_code): rows without a code column
\* are left out
ProcessConstituentsData(data, index_code) ==
    LET coded == SelectSeq(data, LAMBDA row : "code" \in DOMAIN row)
        rows == [i \in 1..Len(coded) |->
                    [stock_code |-> coded[i].code,
                     stock_name |-> Get(coded[i], "name", coded[i].code),
                     weight |-> RawWeight(coded[i]),
                     index_code |-> index_code]]
        sorted == SortByWeight(rows)
        total_weight == SumCol(sorted, "weight")
    IN  [i \in 1..Len(sorted) |->
            [sorted[i] EXCEPT !.weight = Normalized(sorted[i].weight, total_weight)]]

\* get_index_constituents(index_code) with what the provider answered and the
\* configured index_stock_top_n
GetIndexConstituents(constituents_data, index_code, top_n) ==
    IF constituents_data = <<>> THEN <<>>
    ELSE LET processed_data == ProcessConstituentsData(constituents_data, index_code)
         IN  IF Len(processed_data) > top_n
             THEN SubSeq(processed_data, 1, top_n)
             ELSE processed_data

----------------------------------------------------------------------------
(* SectorFetcher.search_similar_sectors *)

\* Texts are sequences of characters; " " is the whitespace.
RECURSIVE Strip(_)
Strip(text) ==
    IF text = <<>> THEN <<>>
    ELSE IF Head(text) = " " THEN Strip(Tail(text))
    ELSE IF text[Len(text)] = " " THEN Strip(SubSeq(text, 1, Len(text) - 1))
    ELSE text

\* a[i .. i+k-1] = b[j .. j+k-1]
BlockAt(a, b, i, j, k) == \A d \in 0..(k - 1) : a[i + d] = b[j + d]

\* SequenceMatcher.find_longest_match on a[alo..ahi] and b[blo..bhi]: the
\* longest common block, the earliest in a, then the earliest in b
FindLongestMatch(a, alo, ahi, b, blo, bhi) ==
    LET blocks == {m \in [i : alo..ahi, j : blo..bhi, size : 1..(ahi - alo + 1)] :
                      /\ m.i + m.size - 1 <= ahi
                      /\ m.j + m.size - 1 <= bhi
                      /\ BlockAt(a, b, m.i, m.j, m.size)}
    IN  IF blocks = {} THEN [i |-> alo, j |-> blo, size |-> 0]
        ELSE CHOOSE m \in blocks :
                \A o \in blocks :
                    \/ o.size < m.size
                    \/ o.size = m.size /\ o.i > m.i
                    \/ o.size = m.size /\ o.i = m.i /\ o.j >= m.j

\* the number of matching characters: the longest block, then the same to
\* its left and to its right (SequenceMatcher.get_matching_blocks)
RECURSIVE Matches(_, _, _, _, _, _)
Matches(a, alo, ahi, b, blo, bhi) ==
    IF alo > ahi \/ blo > bhi THEN 0
    ELSE LET m == FindLongestMatch(a, alo, ahi, b, blo, bhi)
         IN  IF m.size = 0 THEN 0
             ELSE m.size + Matches(a, alo, m.i - 1, b, blo, m.j - 1)
                         + Matches(a, m.i + m.size, ahi, b, m.j + m.size, bhi)

\* SequenceMatcher(None, a, b).ratio() = 2 * matches / (len(a) + len(b)),
\* as a fraction
Ratio(a, b) ==
    IF Len(a) + Len(b) = 0 THEN [num |-> 1, den |-> 1]
    ELSE [num |-> 2 * Matches(a, 1, Len(a), b, 1, Len(b)), den |-> Len(a) + Len(b)]

\* part in whole
IsSubstring(part, whole) ==
    \E i \in 0..(Len(whole) - Len(part)) : SubSeq(whole, i + 1, i + Len(part)) = part

\* the boosts, in tenths
QueryInNameBoost == 3
NameInQueryBoost == 2
TopN == 5

\* the score of one catalog entry, as a fraction over 10 * (total length)
Similarity_NoNameBoost(query, display_name) ==
    LET base == Ratio(query, display_name)
    IN  [num |-> 10 * base.num
                 + (IF IsSubstring(query, display_name) THEN QueryInNameBoost ELSE 0) * base.den,
         den |-> 10 * base.den]

Similarity(query, display_name) ==
    LET base == Ratio(query, display_name)
    IN  [num |-> 10 * base.num
                 + (IF IsSubstring(query, display_name) THEN QueryInNameBoost ELSE 0) * base.den
                 + (IF IsSubstring(display_name, query) THEN NameInQueryBoost ELSE 0) * base.den,
         den |-> 10 * base.den]

ScoreAbove(x, y) == x.num * y.den > y.num * x.den

\* similarities.sort(key=lambda x: x[2], reverse=True): stable, the higher
\* score first, equal scores in catalog order
SortBySimilarity(similarities) ==
    LET n == Len(similarities)
        before(i) == Cardinality({j \in 1..n :
                        \/ ScoreAbove(similarities[j].similarity, similarities[i].similarity)
                        \/ /\ ~ScoreAbove(similarities[i].similarity, similarities[j].similarity)
                           /\ j < i})
    IN  [k \in 1..n |-> similarities[CHOOSE i \in 1..n : before(i) = k - 1]]

\* search_similar_sectors(query); index_stock is the catalog as
\* get_index_stock_info returns it, in its order
\* [out |-> the list returned, log |-> what was logged]
SearchSimilarSectors(query, index_stock) ==
    IF Strip(query) = <<>> THEN [out |-> <<>>, log |-> {}]
    ELSE IF index_stock = <<>> THEN [out |-> <<>>, log |-> {"no_index_info"}]
    ELSE LET similarities ==
                [k \in 1..Len(index_stock) |->
                    [index_code |-> index_stock[k].index_code,
                     display_name |-> index_stock[k].display_name,
                     similarity |-> Similarity(Strip(query), index_stock[k].display_name)]]
             sorted == SortBySimilarity(similarities)
         IN  [out |-> SubSeq(sorted, 1, Min(TopN, Len(sorted))), log |-> {}]

----------------------------------------------------------------------------
(* SectorFetcher.get_index_stock_info *)

\* SectorFetcher.__init__: no catalog, no timestamp (None is <<>>, a value v
\* is <<v>>)
NewFetcher == [index_stock_cache |-> <<>>, cache_timestamp |-> <<>>]

\* self._cache_duration, in seconds
CacheDuration == 3600 * 24

\* index_stock[index_code] = display_name on a dict: a code seen again keeps
\* its place and takes the new name
RECURSIVE SetItem(_, _)
SetItem(index_stock, row) ==
    IF index_stock = <<>> THEN <<row>>
    ELSE IF Head(index_stock).index_code = row.index_code
         THEN <<row>> \o Tail(index_stock)
         ELSE <<Head(index_stock)>> \o SetItem(Tail(index_stock), row)

\* the dict built from the rows of index_df, in row order
RECURSIVE IndexStockOf(_)
IndexStockOf(index_df) ==
    IF index_df = <<>> THEN <<>>
    ELSE SetItem(IndexStockOf(SubSeq(index_df, 1, Len(index_df) - 1)),
                 [index_code |-> index_df[Len(index_df)].index_code,
                  display_name |-> index_df[Len(index_df)].display_name])

\* (mutation) the cache lives one hour, as the comment beside the field says
CacheValid_OneHour(self, current_time) ==
    /\ self.index_stock_cache # <<>>
    /\ self.cache_timestamp # <<>>
    /\ current_time - self.cache_timestamp[1] < 3600

\* the cache test at the head of get_index_stock_info
CacheValid(self, current_time) ==
    /\ self.index_stock_cache # <<>>
    /\ self.cache_timestamp # <<>>
    /\ current_time - self.cache_timestamp[1] < CacheDuration

\* get_index_stock_info() at time.time() = current_time, when
\* ak.index_stock_info() would raise (upstream.raises) or answer
\* upstream.index_df: the value returned, the fetcher afterwards, whether the
\* upstream was called, and the warnings and errors logged
GetIndexStockInfo(self, current_time, upstream) ==
    IF CacheValid(self, current_time)
    THEN [out |-> self.index_stock_cache[1], self |-> self, fetched |-> FALSE, log |-> {}]
    ELSE IF upstream.raises
    THEN IF self.index_stock_cache # <<>>
         THEN [out |-> self.index_stock_cache[1], self |-> self, fetched |-> TRUE,
               log |-> {"index_info_failed", "using_cached_index_info"}]
         ELSE [out |-> <<>>, self |-> self, fetched |-> TRUE, log |-> {"index_info_failed"}]
    ELSE IF upstream.index_df = <<>>
    THEN [out |-> <<>>, self |-> self, fetched |-> TRUE, log |-> {"empty_index_info"}]
    ELSE LET index_stock == IndexStockOf(upstream.index_df)
         IN  [out |-> index_stock,
              self |-> [index_stock_cache |-> <<index_stock>>,
                        cache_timestamp |-> <<current_time>>],
              fetched |-> TRUE, log |-> {}]

----------------------------------------------------------------------------
(* SectorProcessor: the constituent analyses *)

\* (mutation) one limit-up stock is enough for the top level
StrengthLevel_OneLimitUp(strong_stocks, total_stocks, limit_up_count) ==
    IF 100 * strong_stocks >= 50 * total_stocks /\ limit_up_count >= 1
    THEN "very_strong"
    ELSE IF 100 * strong_stocks >= 30 * total_stocks /\ limit_up_count >= 1
    THEN "strong"
    ELSE IF 100 * strong_stocks >= 20 * total_stocks THEN "medium"
    ELSE IF 100 * strong_stocks >= 10 * total_stocks THEN "weak"
    ELSE "very_weak"

\* the strength level from the share of strong stocks and the limit-up count
StrengthLevel(strong_stocks, total_stocks, limit_up_count) ==
    IF 100 * strong_stocks >= 50 * total_stocks /\ limit_up_count >= 3
    THEN "very_strong"
    ELSE IF 100 * strong_stocks >= 30 * total_stocks /\ limit_up_count >= 1
    THEN "strong"
    ELSE IF 100 * strong_stocks >= 20 * total_stocks THEN "medium"
    ELSE IF 100 * strong_stocks >= 10 * total_stocks THEN "weak"
    ELSE "very_weak"

\* the leadership label of concentration = top5_inflow / total_inflow * 100,
\* which is 0 when total_inflow is not positive
Leadership(top5_inflow, total_inflow) ==
    IF total_inflow <= 0 THEN "diffuse"
    ELSE IF 100 * top5_inflow > 60 * total_inflow THEN "strong"
    ELSE IF 100 * top5_inflow > 30 * total_inflow THEN "moderate"
    ELSE "diffuse"

\* the concentration as f"{concentration:.1f}%" shows it, in tenths
Concentration(top5_inflow, total_inflow) ==
    IF total_inflow > 0 THEN Percent1(top5_inflow, total_inflow) ELSE 0

\* _analyze_index_sector_strength(constituents_df)
AnalyzeIndexSectorStrength(df) ==
    IF ~({"inflow", "weight", "pct"} \subseteq Columns(df)) THEN <<>>   \* caught
    ELSE
    LET total_inflow == SumCol(Positive(df, "inflow"), "inflow")
        top5_by_weight == NLargest(df, 5, "weight")
        top5_inflow == SumCol(Positive(top5_by_weight, "inflow"), "inflow")
        limit_up_count == Len(df) - CountBelow(df, "pct", LimitUpPct)
        strong_stocks == CountAbove(df, "pct", StrongPct)
    IN  [strength |-> StrengthLevel(strong_stocks, Len(df), limit_up_count),
         strong_ratio |-> Percent1(strong_stocks, Len(df)),
         limit_up_count |-> limit_up_count,
         concentration |-> Concentration(top5_inflow, total_inflow),
         top_weight_performance |->
            FDiv(10 * SumProduct(top5_by_weight, "pct", "weight", 1),
                 SumCol(top5_by_weight, "weight")),
         leadership |-> Leadership(top5_inflow, total_inflow)]

\* _analyze_sector_strength(detail_data)
AnalyzeSectorStrength(df) ==
    IF ~({"inflow", "pct"} \subseteq Columns(df)) THEN <<>>             \* caught
    ELSE
    LET total_inflow == SumCol(Positive(df, "inflow"), "inflow")
        top5_inflow == SumCol(NLargest(df, 5, "inflow"), "inflow")
        limit_up_count == Len(df) - CountBelow(df, "pct", LimitUpPct)
        strong_stocks == CountAbove(df, "pct", StrongPct)
    IN  [strength |-> StrengthLevel(strong_stocks, Len(df), limit_up_count),
         strong_ratio |-> Percent1(strong_stocks, Len(df)),
         limit_up_count |-> limit_up_count,
         concentration |-> Concentration(top5_inflow, total_inflow),
         leadership |-> Leadership(top5_inflow, total_inflow)]

\* (mutation) the empty analysis claims one constituent
EmptySummary_One == [total_stocks |-> 1, inflow_stocks |-> 0, outflow_stocks |-> 0,
                     rising_stocks |-> 0, falling_stocks |-> 0,
                     total_net_inflow |-> 0, avg_change |-> 0, rising_ratio |-> 0]

\* the summary of an analysis without constituents: counts 0, "0.00万元",
\* "0.00%" and "0.0%"
EmptySummary == [total_stocks |-> 0, inflow_stocks |-> 0, outflow_stocks |-> 0,
                 rising_stocks |-> 0, falling_stocks |-> 0,
                 total_net_inflow |-> 0, avg_change |-> 0, rising_ratio |-> 0]

\* _get_empty_sector_analysis(index_code, sector_name); sector_name = "" is None
EmptySectorAnalysis(index_code, sector_name, index_stock) ==
    [sector_name |-> IF sector_name = "" THEN IndexName(index_stock, index_code)
                     ELSE sector_name,
     index_code |-> index_code,
     summary |-> EmptySummary,
     stock_rankings |-> [top_inflow |-> <<>>, top_outflow |-> <<>>,
                         top_rising |-> <<>>],
     strength_analysis |-> <<>>,
     raw_data |-> <<>>]

\* analyze_index_sector_detail(index_code, sector_data)
AnalyzeIndexSectorDetail(index_code, sector_data, index_stock) ==
    IF sector_data = <<>> THEN EmptySectorAnalysis(index_code, "", index_stock)
    ELSE IF "sector" \notin Columns(sector_data)
    THEN EmptySectorAnalysis(index_code, "", index_stock)       \* KeyError, caught
    ELSE IF \/ "constituents" \notin Columns(sector_data)
            \/ sector_data[1].constituents = <<>>
    THEN EmptySectorAnalysis(index_code, sector_data[1].sector, index_stock)
    ELSE
    LET df == sector_data[1].constituents
        shown == {"stock_code", "stock_name", "inflow", "pct", "weight"}
        k == Min(10, Len(df))
    IN  IF ~(shown \subseteq Columns(df))
        THEN EmptySectorAnalysis(index_code, "", index_stock)   \* KeyError, caught
        ELSE
        [sector_name |-> sector_data[1].sector,
         index_code |-> index_code,
         summary |->
            [total_stocks |-> Len(df),
             inflow_stocks |-> CountAbove(df, "inflow", 0),
             outflow_stocks |-> CountBelow(df, "inflow", 0),
             rising_stocks |-> CountAbove(df, "pct", 0),
             falling_stocks |-> CountBelow(df, "pct", 0),
             total_net_inflow |-> 100 * SumCol(df, "inflow"),
             avg_change |-> SumProduct(df, "pct", "weight", 1),
             rising_ratio |-> Percent1(CountAbove(df, "pct", 0), Len(df))],
         stock_rankings |->
            [top_inflow |-> Records(NLargest(Positive(df, "inflow"), k, "inflow"), shown),
             top_outflow |-> Records(NSmallest(Negative(df, "inflow"), k, "inflow"), shown),
             top_rising |-> Records(NLargest(df, k, "pct"), shown)],
         strength_analysis |-> AnalyzeIndexSectorStrength(df),
         raw_data |-> df]

\* the result of analyze_sector_detail without constituents
EmptyDetailAnalysis(sector_name) ==
    [sector_name |-> sector_name,
     summary |-> EmptySummary,
     stock_rankings |-> [top_inflow |-> <<>>, top_outflow |-> <<>>],
     strength_analysis |-> <<>>,
     raw_data |-> <<>>]

\* the columns analyze_sector_detail adds to detail_data when they are absent
DetailDefaults(detail_data, i) ==
    LET cols == Columns(detail_data)
        row == detail_data[i]
    IN  (IF "inflow" \in cols THEN <<>> ELSE "inflow" :> 0)
        @@ (IF "pct" \in cols THEN <<>> ELSE "pct" :> 0)
        @@ (IF "name" \in cols THEN <<>>
            ELSE "name" :> IF "stock_name" \in cols THEN row.stock_name
                           ELSE IF "code" \in cols THEN row.code
                           ELSE "unknown")
        @@ (IF "code" \in cols THEN <<>> ELSE "code" :> "000000")

\* analyze_sector_detail(sector_name, detail_data)
AnalyzeSectorDetail(sector_name, detail_data) ==
    IF detail_data = <<>> THEN EmptyDetailAnalysis(sector_name)
    ELSE
    LET df == WithCols(detail_data, LAMBDA i : DetailDefaults(detail_data, i))
        shown == {"name", "code", "inflow", "pct"}
        inflow_stocks_data == Positive(df, "inflow")
        outflow_stocks_data == Negative(df, "inflow")
    IN  [sector_name |-> sector_name,
         summary |->
            [total_stocks |-> Len(df),
             inflow_stocks |-> Len(inflow_stocks_data),
             outflow_stocks |-> Len(outflow_stocks_data),
             rising_stocks |-> CountAbove(df, "pct", 0),
             falling_stocks |-> CountBelow(df, "pct", 0),
             total_net_inflow |-> 100 * SumCol(df, "inflow"),
             avg_change |-> FDiv(10 * SumCol(df, "pct"), Len(df)),
             rising_ratio |-> Percent1(CountAbove(df, "pct", 0), Len(df))],
         stock_rankings |->
            [top_inflow |->
                Records(NLargest(inflow_stocks_data,
                                 Min(10, Len(inflow_stocks_data)), "inflow"), shown),
             top_outflow |->
                Records(NSmallest(outflow_stocks_data,
                                  Min(10, Len(outflow_stocks_data)), "inflow"), shown)],
         strength_analysis |-> AnalyzeSectorStrength(df),
         raw_data |-> df]

\* the caller's detail table after analyze_sector_detail returned: the
\* default columns are assigned to detail_data itself
DetailAfter(detail_data) ==
    IF detail_data = <<>> THEN detail_data
    ELSE WithCols(detail_data, LAMBDA i : DetailDefaults(detail_data, i))

----------------------------------------------------------------------------
(* SectorProcessor.process_sector_data *)

\* _calculate_market_sentiment(sector_data)
CalculateMarketSentiment(sector_data) ==
    LET total_sectors == Len(sector_data)
        rising == CountAbove(sector_data, "pct", 0)
        inflow == CountAbove(sector_data, "funds", 0)
        total_inflow == SumCol(Positive(sector_data, "funds"), "funds")
        total_outflow == -SumCol(Negative(sector_data, "funds"), "funds")
        level ==
            IF 10 * rising >= 7 * total_sectors /\ 10 * inflow >= 6 * total_sectors
            THEN [sentiment |-> "very_optimistic", score |-> 90]
            ELSE IF 10 * rising >= 6 * total_sectors /\ 10 * inflow >= 5 * total_sectors
            THEN [sentiment |-> "optimistic", score |-> 75]
            ELSE IF 10 * rising >= 4 * total_sectors /\ 10 * inflow >= 4 * total_sectors
            THEN [sentiment |-> "neutral", score |-> 50]
            ELSE IF 10 * rising >= 3 * total_sectors /\ 10 * inflow >= 3 * total_sectors
            THEN [sentiment |-> "pessimistic", score |-> 25]
            ELSE [sentiment |-> "very_pessimistic", score |-> 10]
    IN  [sentiment |-> level.sentiment,
         score |-> level.score,
         rising_ratio |-> Percent1(rising, total_sectors),
         inflow_ratio |-> Percent1(inflow, total_sectors),
         avg_change |-> FDiv(10 * SumCol(sector_data, "pct"), total_sectors),
         flow_ratio |-> IF total_outflow > 0 THEN FDiv(100 * total_inflow, total_outflow)
                        ELSE IF total_inflow > 0 THEN PInf ELSE 0]

\* process_sector_data(sector_data): the mapping returned, <<>> being the
\* empty one
ProcessSectorData(sector_data) ==
    IF sector_data = <<>> THEN <<>>
    ELSE IF ~({"sector", "funds", "pct", "turnover"} \subseteq Columns(sector_data))
    THEN <<>>                                   \* KeyError, caught
    ELSE
    LET total_sectors == Len(sector_data)
        ranked == {"sector", "funds", "pct", "turnover"}
        inflow_sectors_data == Positive(sector_data, "funds")
        outflow_sectors_data == Negative(sector_data, "funds")
        rising_sectors == CountAbove(sector_data, "pct", 0)
        by_funds == WithCols(sector_data, LAMBDA i :
                        "activity" :> Abs(sector_data[i].funds))
    IN  [summary |->
            [total_sectors |-> total_sectors,
             inflow_sectors |-> Len(inflow_sectors_data),
             outflow_sectors |-> Len(outflow_sectors_data),
             rising_sectors |-> rising_sectors,
             falling_sectors |-> CountBelow(sector_data, "pct", 0),
             net_flow |-> SumCol(inflow_sectors_data, "funds")
                          + SumCol(outflow_sectors_data, "funds"),
             inflow_share |-> Percent1(Len(inflow_sectors_data), total_sectors),
             rising_share |-> Percent1(rising_sectors, total_sectors)],
         rankings |->
            [top_inflow |-> Records(NLargest(inflow_sectors_data, 10, "funds"), ranked),
             top_outflow |-> Records(NSmallest(outflow_sectors_data, 10, "funds"), ranked),
             top_rising |-> Records(NLargest(sector_data, 10, "pct"), ranked),
             top_falling |-> Records(NSmallest(sector_data, 10, "pct"), ranked),
             most_active |->
                IF SumCol(sector_data, "turnover") > 0
                THEN Records(NLargest(sector_data, 10, "turnover"), ranked)
                ELSE [i \in 1..Min(10, total_sectors) |->
                        SetCol(Records(NLargest(by_funds, 10, "activity"),
                                       {"sector", "funds", "pct"})[i],
                               "turnover", 0)]],
         market_sentiment |-> CalculateMarketSentiment(sector_data),
         raw_data |-> sector_data]

----------------------------------------------------------------------------
(* SectorProcessor.analyze_sector_history *)

\* 1 + pct / 100 for pct in tenths of a percent: PctBase + pct over PctBase
PctBase == 1000

\* cumulative_returns[i] / cumulative_returns[j] for j <= i, as a fraction
RECURSIVE Growth(_, _, _)
Growth(s, j, i) ==
    IF i <= j THEN [num |-> 1, den |-> 1]
    ELSE LET g == Growth(s, j, i - 1)
         IN  [num |-> g.num * (PctBase + s[i]), den |-> g.den * PctBase]

\* the row j <= i where cumulative_returns.expanding().max() is attained at i
RunningMaxAt(s, i) ==
    CHOOSE j \in 1..i :
        /\ \A m \in 1..j : Growth(s, m, j).num >= Growth(s, m, j).den
        /\ \A m \in j..i : Growth(s, j, m).num <= Growth(s, j, m).den

\* -drawdown[i] = 1 - cumulative_returns[i] / running_max[i], a fraction >= 0
DropAt(s, i) ==
    LET g == Growth(s, RunningMaxAt(s, i), i)
    IN  [num |-> g.den - g.num, den |-> g.den]

\* drawdown.min() * 100 as f"{...:.2f}%" shows it, in hundredths
MaxDrawdown(s) ==
    LET worst == CHOOSE i \in 1..Len(s) :
                    \A m \in 1..Len(s) :
                        FracCmp(DropAt(s, i).num, DropAt(s, i).den,
                                DropAt(s, m).num, DropAt(s, m).den) >= 0
        drop == DropAt(s, worst)
    IN  IF drop.den >= 10000 THEN -RoundDiv(drop.num, drop.den \div 10000)
        ELSE -(drop.num * (10000 \div drop.den))

\* Series.std() as f"{...:.2f}%" shows it, in hundredths, of a column in tenths:
\*   10 * std >= k - 1/2   iff   std >= (2k - 1) * n / (20 * n)
StdShown(s) ==
    LET n == Len(s)
        sm == WinSum(s, 1, n)
        dev == n * WinSumSq(s, 1, n) - sm * sm
    IN  IF n < 2 THEN NaN ELSE RootRound(dev, n, 2 * n, -n, 400, 0)

\* analyze_sector_history(history_data): the mapping returned, <<>> being the
\* empty one
AnalyzeSectorHistory(history_data) ==
    IF history_data = <<>> THEN <<>>
    ELSE IF ~({"pct", "inflow", "turnover", "volume"} \subseteq Columns(history_data))
    THEN <<>>                                   \* KeyError, caught
    ELSE
    LET total_days == Len(history_data)
        pct == ForceSeq(Col(history_data, "pct"))
        inflow == Col(history_data, "inflow")
        turnover == Col(history_data, "turnover")
        rising_days == CountAbove(history_data, "pct", 0)
        falling_days == CountBelow(history_data, "pct", 0)
        inflow_days == CountAbove(history_data, "inflow", 0)
        recent_7_days == TailRows(history_data, 7)
        recent_30_days == TailRows(history_data, 30)
    IN  [period_summary |->
            [total_days |-> total_days,
             rising_days |-> rising_days,
             falling_days |-> falling_days,
             flat_days |-> total_days - rising_days - falling_days,
             rising_share |-> Percent1(rising_days, total_days)],
         return_analysis |->
            [total_return |-> 10 * SumCol(history_data, "pct"),
             mean_return |-> FDiv(10 * SumCol(history_data, "pct"), total_days),
             best_day |-> 10 * ColMax(pct),
             worst_day |-> 10 * ColMin(pct),
             volatility |-> StdShown(pct),
             max_drawdown |-> MaxDrawdown(pct)],
         fund_flow_analysis |->
            [inflow_days |-> inflow_days,
             outflow_days |-> CountBelow(history_data, "inflow", 0),
             inflow_share |-> Percent1(inflow_days, total_days),
             total_fund_flow |-> 100 * SumCol(history_data, "inflow"),
             mean_fund_flow |-> FDiv(100 * SumCol(history_data, "inflow"), total_days),
             largest_inflow |-> 100 * ColMax(inflow),
             largest_outflow |-> 100 * ColMin(inflow)],
         activity_analysis |->
            [avg_turnover |-> FDiv(10 * SumCol(history_data, "turnover"), total_days),
             avg_volume |-> FDiv(SumCol(history_data, "volume"), total_days),
             high_turnover_days |->
                Cardinality({i \in 1..total_days :
                    2 * total_days * turnover[i]
                        > 3 * SumCol(history_data, "turnover")}),
             strong_days |-> CountAbove(history_data, "pct", StrongPct),
             weak_days |-> CountBelow(history_data, "pct", -StrongPct)],
         recent_trend |->
            [recent_7_return |-> 10 * SumCol(recent_7_days, "pct"),
             recent_30_return |-> 10 * SumCol(recent_30_days, "pct"),
             recent_7_fund_flow |-> 100 * SumCol(recent_7_days, "inflow"),
             recent_30_fund_flow |-> 100 * SumCol(recent_30_days, "inflow")]]

----------------------------------------------------------------------------
(* The state machine: a caller that invokes one operation at a time *)

NoCall == [op |-> "none"]
NoLocals == [akshare_data |-> <<>>, tushare_data |-> <<>>, eastmoney_data |-> <<>>]

\* no call in flight, no cache file on disk
Init ==
    /\ pc = "idle"
    /\ call = NoCall
    /\ result = <<>>
    /\ raised = FALSE
    /\ warned = {}
    /\ cache = <<>>
    /\ locals = NoLocals
    /\ fetcher = NewFetcher

\* a direct call of _merge_sh_sz_margin_data(sh_data, sz_data, start, end)
CallMerge ==
    /\ pc = "idle"
    /\ \E sh \in ExTables("sh"), sz \in ExTables("sz"), rng \in Ranges :
          LET m == MergeShSz(sh, sz, rng[1], rng[2])
          \* sh_after, sz_after: the caller's tables after the call; their
          \* date column is reassigned, holding the same dates as timestamps
          IN  /\ call' = [op |-> "merge", sh_data |-> sh, sz_data |-> sz,
                          start_date |-> rng[1], end_date |-> rng[2],
                          sh_after |-> sh, sz_after |-> sz]
              /\ result' = m.out
              /\ warned' = m.log
    /\ raised' = FALSE
    /\ pc' = "returned"
    /\ UNCHANGED <<cache, locals, fetcher>>

(* get_margin_trading_summary, one provider at a time *)

\* the raw tables the providers answer with inside get_margin_trading_summary
PipeShapes ==
    {ExDates(1, len, desc, dup) : len \in 0..MaxLen, desc \in BOOLEAN, dup \in BOOLEAN}

AkResponses ==
    {[kind |-> "absent"], [kind |-> "error"]}
    \cup {[kind |-> "ok", sh |-> ExTable("sh", ds, "full"), sz |-> ExTable("sz", dz, "full")] :
            ds \in PipeShapes, dz \in PipeShapes}

\* a TuShare row: exchanges alternate, amounts in units of 10,000
TsRow(d, i, complete) ==
    LET base == [trade_date |-> Ymd(d),
                 exchange_id |-> IF i % 2 = 1 THEN "SSE" ELSE "SZSE",
                 rzye |-> 9 + d, rzmre |-> 1, rzche |-> 1, rqye |-> 1,
                 rqmcl |-> 2, rzrqye |-> 10 + d]
    IN  IF complete THEN SetCol(base, "rqyl", 3) ELSE base

TsResponses ==
    {[kind |-> "absent"], [kind |-> "error"]}
    \cup {[kind |-> "ok", df |-> [i \in 1..Len(ds) |-> TsRow(ds[i], i, complete)]] :
            ds \in PipeShapes, complete \in BOOLEAN}

EmRow(d) ==
    [TRADE_DATE |-> d, RZYE |-> 150 + d, RQYE |-> 15, RZRQYE |-> 165 + d,
     RZMRE |-> 12, RQMCL |-> 4, RQMCJE |-> 8]

EmResponses ==
    {[kind |-> "error"]}
    \cup {[kind |-> "ok", df |-> [i \in 1..Len(ds) |-> EmRow(ds[i])]] : ds \in PipeShapes}

\* a table an earlier run may have left in the cache
CachedSample ==
    StandardizeAkshare(
        MergeShSz(ExTable("sh", <<1, 2>>, "full"), ExTable("sz", <<1, 2>>, "full"),
                  Ymd(1), Ymd(2)).out)

CacheEntries ==
    {<<>>, <<[data |-> CachedSample, fresh |-> TRUE]>>,
           <<[data |-> CachedSample, fresh |-> FALSE]>>}

\* the ranges a caller may pass, valid or not
CallRanges == Ranges \cup {<<Ymd(2), Ymd(1)>>}

\* get_margin_trading_summary(start_date, end_date, use_cache), up to the providers
StartSummary ==
    /\ pc = "idle"
    /\ \E rng \in CallRanges, use_cache \in BOOLEAN :
          /\ call' = [op |-> "summary", start_date |-> rng[1], end_date |-> rng[2],
                      use_cache |-> use_cache, cache0 |-> cache, consulted |-> FALSE]
          /\ IF ~ValidDateRange(rng[1], rng[2])
             THEN /\ raised' = TRUE
                  /\ result' = <<>>
                  /\ pc' = "returned"
             ELSE IF use_cache /\ LoadCachedData(cache) # <<>>
             THEN /\ raised' = FALSE
                  /\ result' = LoadCachedData(cache)[1]
                  /\ pc' = "returned"
             ELSE /\ raised' = FALSE
                  /\ result' = <<>>
                  /\ pc' = "fetch_akshare"
    /\ UNCHANGED <<warned, cache, locals, fetcher>>

FetchAkshare ==
    /\ pc = "fetch_akshare"
    /\ \E resp \in AkResponses :
          LET got == GetMarginDataAkshare(resp, call.start_date, call.end_date)
          IN  /\ locals' = [locals EXCEPT !.akshare_data = got.out]
              /\ warned' = warned \cup got.log
    /\ call' = [call EXCEPT !.consulted = TRUE]
    /\ pc' = "fetch_tushare"
    /\ UNCHANGED <<result, raised, cache, fetcher>>

FetchTushare ==
    /\ pc = "fetch_tushare"
    /\ \E resp \in TsResponses :
          LET got == GetMarginDataTushare(resp)
          IN  /\ locals' = [locals EXCEPT !.tushare_data = got.out]
              /\ warned' = warned \cup got.log
    /\ pc' = "fetch_eastmoney"
    /\ UNCHANGED <<call, result, raised, cache, fetcher>>

FetchEastmoney ==
    /\ pc = "fetch_eastmoney"
    /\ \E resp \in EmResponses :
          LET got == GetMarginDataEastmoney(resp)
          IN  /\ locals' = [locals EXCEPT !.eastmoney_data = got.out]
              /\ warned' = warned \cup got.log
    /\ pc' = "select"
    /\ UNCHANGED <<call, result, raised, cache, fetcher>>

\* the selection among the providers' tables, the cache write and the return
ReturnSummary ==
    /\ pc = "select"
    /\ LET selected == SelectSource(locals.akshare_data, locals.tushare_data,
                                    locals.eastmoney_data)
       IN  /\ result' = selected
           /\ cache' = CacheAfterSelect(call.use_cache, selected, cache)
           /\ warned' = IF selected = <<>> THEN warned \cup {"all_sources_failed"}
                        ELSE warned
    /\ pc' = "returned"
    /\ UNCHANGED <<call, raised, locals, fetcher>>

SummaryNext ==
    \/ StartSummary
    \/ FetchAkshare
    \/ FetchTushare
    \/ FetchEastmoney
    \/ ReturnSummary

(* process_margin_summary and analyze_margin_trends, called directly *)

MaxSeries == 3      \* enumerated margin series have at most MaxSeries rows

\* the financing balances of an enumerated series
SeriesValues == {0, 100, 110}

\* How a series carries the combined balance:
\*   "absent"    no total_bal column: the processor computes it
\*   "sum"       total_bal = fin_bal + short_bal
\*   "reported"  total_bal is the provider's own figure, 90 above the sum
TotalKinds == {"absent", "sum", "reported"}

SeriesRow(d, fin, short, kind) ==
    LET base == [trade_date |-> Ymd(d), fin_buy |-> 5, fin_bal |-> fin,
                 short_bal |-> short]
    IN  IF kind = "absent" THEN base
        ELSE SetCol(base, "total_bal",
                    fin + short + (IF kind = "reported" THEN 90 ELSE 0))

\* a series of the given financing balances on consecutive days, oldest
\* first or newest first
SeriesTable(fins, short, kind, desc) ==
    [i \in 1..Len(fins) |->
        SeriesRow(IF desc THEN Len(fins) + 1 - i ELSE i, fins[i], short, kind)]

\* <<short balance, total kind, newest first>> of the enumerated series
SeriesVariants ==
    {<<10, "absent", FALSE>>, <<10, "absent", TRUE>>, <<0, "absent", FALSE>>,
     <<10, "sum", FALSE>>, <<10, "reported", FALSE>>, <<0, "reported", TRUE>>}

ShortSeries ==
    {SeriesTable(fins, v[1], v[2], v[3]) :
        fins \in UNION {[1..n -> SeriesValues] : n \in 0..MaxSeries},
        v \in SeriesVariants}

\* long series: TailN + LongExtra days, so that the 20-period change exists
LongPatterns == {"rising", "falling", "flat", "zigzag"}

LongFin(pattern, i) ==
    CASE pattern = "rising" -> 100 + i
      [] pattern = "falling" -> 130 - i
      [] pattern = "flat" -> 100
      [] pattern = "zigzag" -> 100 + 10 * ((i + 1) % 2)

LongSeries ==
    {SeriesTable([i \in 1..(TailN + LongExtra) |->
                    LongFin(pattern, IF desc THEN TailN + LongExtra + 1 - i ELSE i)],
                 10, "absent", desc) : pattern \in LongPatterns, desc \in BOOLEAN}

\* what get_margin_trading_summary hands on from the exchange co-merge
MergedSeries ==
    {StandardizeAkshare(
        MergeShSz(ExTable("sh", ds, profile), ExTable("sz", dz, "full"),
                  Ymd(1), Ymd(MaxDay)).out) :
        ds \in PipeShapes, dz \in PipeShapes, profile \in Profiles}

\* series with a non-numeric cell: in the financing balance of the first row
\* (the basic metrics raise), and in the buy-in amount of a table without
\* the balances' columns (the change rates raise after the basic metrics)
MalformedSeries ==
    {<<[trade_date |-> Ymd(1), fin_buy |-> 5, fin_bal |-> Bad, short_bal |-> 10],
       [trade_date |-> Ymd(2), fin_buy |-> 5, fin_bal |-> 100, short_bal |-> 10]>>,
     <<[trade_date |-> Ymd(2), fin_buy |-> 5, total_bal |-> 120],
       [trade_date |-> Ymd(1), fin_buy |-> Bad, total_bal |-> 110]>>}

\* series whose daily change is exactly 1, 0.1, -0.1 or -1 percent, and series
\* whose gains are 70, 50 or 30 percent of the movement
BandSeries ==
    {SeriesTable(fins, 0, "absent", FALSE) :
        fins \in {<<1000, 1010>>, <<1000, 1001>>, <<1000, 999>>, <<1000, 990>>,
                  <<1000, 1007, 1004>>, <<1000, 1005, 1000>>, <<1000, 1003, 996>>}}

\* a series longer than the longest rolling window
LongestWindow == 60

SixtySeries ==
    {SeriesTable([i \in 1..(LongestWindow + LongExtra) |-> 1 + ((i * i) % 7)],
                 1, "absent", FALSE)}

\* two-day series that carry the date and any choice of the source columns
SourceColumns == {"fin_bal", "short_bal", "total_bal", "fin_buy"}

PartialRow(d, present) ==
    LET full == [trade_date |-> Ymd(d), fin_bal |-> 90 + 10 * d, short_bal |-> 10,
                 total_bal |-> 100 + 10 * d, fin_buy |-> 5]
    IN  [c \in {"trade_date"} \cup present |-> full[c]]

PartialSeries ==
    {[d \in 1..2 |-> PartialRow(d, present)] : present \in SUBSET SourceColumns}

MarginInputs ==
    ShortSeries \cup LongSeries \cup MergedSeries \cup MalformedSeries \cup BandSeries
        \cup SixtySeries \cup PartialSeries

\* market tables: none, two rows (one per exchange) for each of days 1 and
\* 2, and the same without the turnover column
MarketRows ==
    [i \in 1..4 |-> [trade_date |-> Ymd((i + 1) \div 2), turnover |-> 400 * i]]

MarketInputs ==
    {<<>>, MarketRows, [i \in 1..4 |-> [trade_date |-> MarketRows[i].trade_date]]}

\* process_margin_summary(margin_data, market_data)
CallProcess ==
    /\ pc = "idle"
    /\ \E margin \in MarginInputs, market \in MarketInputs :
          LET p == ProcessMarginSummary(margin, market)
          IN  /\ call' = [op |-> "process", margin_data |-> margin,
                          market_data |-> market,
                          market_after |-> MarketAfter(margin, market, p.log)]
              /\ result' = p.out
              /\ warned' = p.log
    /\ raised' = FALSE
    /\ pc' = "returned"
    /\ UNCHANGED <<cache, locals, fetcher>>

\* analyze_margin_trends(df) on the table process_margin_summary returned
CallAnalyze ==
    /\ pc = "returned"
    /\ call.op = "process"
    /\ call' = [op |-> "analyze", df |-> result,
                margin_data |-> call.margin_data, market_data |-> call.market_data]
    /\ result' = AnalyzeMarginTrends(result)
    /\ raised' = FALSE
    /\ pc' = "returned"
    /\ UNCHANGED <<warned, cache, locals, fetcher>>

ProcessorNext ==
    \/ CallProcess
    \/ CallAnalyze

(* the sector operations, called directly *)

MaxStocks == 2      \* enumerated constituent and sector tables: at most MaxStocks rows
MaxHistory == 2     \* enumerated sector histories: at most MaxHistory days

\* the tables of at most n rows whose i-th row is row(i, k) for a kind k
TablesOf(kinds, n, row(_, _)) ==
    UNION {{[i \in 1..len |-> row(i, ks[i])] : ks \in [1..len -> kinds]} : len \in 0..n}

\* t without the column c
DropCol(t, c) == [i \in 1..Len(t) |-> [k \in DOMAIN t[i] \ {c} |-> t[i][k]]]

StockKinds == {"leader", "laggard", "limit_up", "unweighted", "sole"}

\* a constituent with its quote and its index weight
StockRow(i, kind) ==
    LET quote ==
            CASE kind = "leader" -> [pct |-> 35, turnover |-> 12, inflow |-> 80, weight |-> 5]
              [] kind = "laggard" -> [pct |-> -20, turnover |-> 8, inflow |-> -50, weight |-> 3]
              [] kind = "limit_up" -> [pct |-> 100, turnover |-> 30, inflow |-> 20, weight |-> 2]
              [] kind = "unweighted" -> [pct |-> 0, turnover |-> 0, inflow |-> 0, weight |-> 0]
              [] kind = "sole" -> [pct |-> 25, turnover |-> 7, inflow |-> 10, weight |-> 10]
    IN  [stock_code |-> "60000" \o ToString(i), stock_name |-> kind] @@ quote

\* three constituents of weights 0.5, 0.3, 0.2 and changes 2, -1, 4 percent
ThreeStocks ==
    [i \in 1..3 |->
        [stock_code |-> "60000" \o ToString(i), stock_name |-> "third",
         pct |-> <<20, -10, 40>>[i], turnover |-> <<10, 20, 30>>[i],
         inflow |-> <<100, -40, 0>>[i], weight |-> <<5, 3, 2>>[i]]]

\* the changes of n constituents of which limit_up rose 9.5% (at the limit),
\* strong more rose 9.4% or 3.1%, and the others 3.0% or not at all
MaxGraded == 6

GradedPct(n, limit_up, strong) ==
    [i \in 1..n |->
        IF i <= limit_up THEN 95
        ELSE IF i <= limit_up + strong THEN (IF i % 2 = 0 THEN 94 ELSE 31)
        ELSE (IF i % 2 = 0 THEN 30 ELSE 0)]

GradedProfiles ==
    {GradedPct(n, limit_up, strong) :
        n \in 1..MaxGraded, limit_up \in 0..MaxGraded, strong \in 0..MaxGraded}

\* constituents with these changes; those after the fifth weigh less and
\* draw the larger inflow
GradedStocks(changes) ==
    [i \in 1..Len(changes) |->
        [stock_code |-> "60000" \o ToString(i), stock_name |-> "graded",
         pct |-> changes[i], turnover |-> 10,
         inflow |-> IF i > 5 THEN 100 ELSE 10 * (i % 3),
         weight |-> IF i > 5 THEN 1 ELSE 2]]

\* constituent tables, and the same without the weight column
StockTables ==
    LET full == TablesOf(StockKinds, MaxStocks, StockRow) \cup {ThreeStocks}
    IN  full \cup {DropCol(t, "weight") : t \in full \ {<<>>}}
             \cup {GradedStocks(changes) : changes \in GradedProfiles}

IndexCodes == {"000300", "399006"}

\* what get_index_stock_info answers with: nothing, or the catalog
Catalogs == {<<>>, "000300" :> "hs300"}

SectorKinds == {"inflow", "outflow", "quiet"}

\* a sector snapshot row: funds in hundredths of 亿元
SectorRow(i, kind) ==
    LET quote ==
            CASE kind = "inflow" -> [funds |-> 250, pct |-> 12, turnover |-> 15]
              [] kind = "outflow" -> [funds |-> -120, pct |-> -8, turnover |-> 0]
              [] kind = "quiet" -> [funds |-> 0, pct |-> 0, turnover |-> 0]
    IN  [sector |-> kind \o ToString(i)] @@ quote

SectorTables ==
    LET full == TablesOf(SectorKinds, MaxStocks, SectorRow)
    IN  full \cup {DropCol(t, "turnover") : t \in full \ {<<>>}}

DayKinds == {"up", "down", "flat", "surge"}

\* one day of a sector's history
HistoryRow(i, kind) ==
    LET quote ==
            CASE kind = "up" -> [pct |-> 12, inflow |-> 300, turnover |-> 10, volume |-> 1000]
              [] kind = "down" -> [pct |-> -35, inflow |-> -200, turnover |-> 10, volume |-> 1500]
              [] kind = "flat" -> [pct |-> 0, inflow |-> 0, turnover |-> 5, volume |-> 800]
              [] kind = "surge" -> [pct |-> 40, inflow |-> 900, turnover |-> 40, volume |-> 4001]
    IN  [date |-> i] @@ quote

HistoryTables ==
    LET full == TablesOf(DayKinds, MaxHistory, HistoryRow)
    IN  full \cup {DropCol(t, "volume") : t \in full \ {<<>>}}

DetailKinds == {"buy", "sell", "idle", "trickle"}

\* a constituent of a sector's detail table
DetailRow(i, kind) ==
    LET quote ==
            CASE kind = "buy" -> [inflow |-> 120, pct |-> 35]
              [] kind = "sell" -> [inflow |-> -60, pct |-> -10]
              [] kind = "idle" -> [inflow |-> 0, pct |-> 0]
              [] kind = "trickle" -> [inflow |-> 10, pct |-> 5]
    IN  [code |-> "00000" \o ToString(i), name |-> kind] @@ quote

\* a detail table with these changes
GradedDetail(changes) ==
    [i \in 1..Len(changes) |->
        [code |-> "00000" \o ToString(i), name |-> "graded",
         inflow |-> 10 * i, pct |-> changes[i]]]

\* detail tables, and tables that carry the stock names only
DetailTables ==
    LET full == TablesOf(DetailKinds, MaxStocks, DetailRow)
    IN  full \cup {[i \in 1..Len(t) |-> [stock_name |-> t[i].name]] : t \in full \ {<<>>}}
             \cup {GradedDetail(changes) : changes \in GradedProfiles}

SectorNames == {"banks"}

\* _aggregate_sector_data(stock_data, index_code)
CallAggregate ==
    /\ pc = "idle"
    /\ \E stock_data \in StockTables, index_code \in IndexCodes, index_stock \in Catalogs :
          /\ call' = [op |-> "aggregate", stock_data |-> stock_data,
                      index_code |-> index_code]
          /\ result' = AggregateSectorData(stock_data, index_code, index_stock)
    /\ raised' = FALSE
    /\ pc' = "returned"
    /\ UNCHANGED <<warned, cache, locals, fetcher>>

\* analyze_index_sector_detail(index_code, sector_data) on the table
\* _aggregate_sector_data returned
CallIndexDetail ==
    /\ pc = "returned"
    /\ call.op = "aggregate"
    /\ \E index_stock \in Catalogs :
          result' = AnalyzeIndexSectorDetail(call.index_code, result, index_stock)
    /\ call' = [op |-> "index_detail", index_code |-> call.index_code,
                sector_data |-> result, stock_data |-> call.stock_data]
    /\ raised' = FALSE
    /\ pc' = "returned"
    /\ UNCHANGED <<warned, cache, locals, fetcher>>

\* process_sector_data(sector_data)
CallProcessSector ==
    /\ pc = "idle"
    /\ \E sector_data \in SectorTables :
          /\ call' = [op |-> "process_sector", sector_data |-> sector_data]
          /\ result' = ProcessSectorData(sector_data)
    /\ raised' = FALSE
    /\ pc' = "returned"
    /\ UNCHANGED <<warned, cache, locals, fetcher>>

\* analyze_sector_history(history_data)
CallSectorHistory ==
    /\ pc = "idle"
    /\ \E history_data \in HistoryTables :
          /\ call' = [op |-> "sector_history", history_data |-> history_data]
          /\ result' = AnalyzeSectorHistory(history_data)
    /\ raised' = FALSE
    /\ pc' = "returned"
    /\ UNCHANGED <<warned, cache, locals, fetcher>>

\* analyze_sector_detail(sector_name, detail_data)
CallSectorDetail ==
    /\ pc = "idle"
    /\ \E sector_name \in SectorNames, detail_data \in DetailTables :
          /\ call' = [op |-> "sector_detail", sector_name |-> sector_name,
                      detail_data |-> detail_data,
                      detail_after |-> DetailAfter(detail_data)]
          /\ result' = AnalyzeSectorDetail(sector_name, detail_data)
    /\ raised' = FALSE
    /\ pc' = "returned"
    /\ UNCHANGED <<warned, cache, locals, fetcher>>

\* what get_index_constituents returns: code, name and normalized weight,
\* heaviest first; nothing when the index is unknown
NormalWeights == <<<<10>>, <<6, 4>>, <<5, 3, 2>>>>

ConstituentTable(n) ==
    [i \in 1..n |-> [stock_code |-> "60000" \o ToString(i),
                     stock_name |-> "stock" \o ToString(i),
                     weight |-> NormalWeights[n][i]]]

ConstituentTables ==
    {<<>>} \cup {ConstituentTable(n) : n \in 1..Min(MaxStocks, Len(NormalWeights))}

\* the fund-flow feed: not fetched, quotes, changes that cancel under the
\* weights 0.6 and 0.4, no change at all, and a cell that is not a number
FundFlowFeeds ==
    {<<>>,
     <<[code |-> "600001", main_net |-> 800000, pct |-> 35, price |-> 1200],
       [code |-> "600002", main_net |-> -500000, pct |-> -20, price |-> 800]>>,
     <<[code |-> "600001", main_net |-> 800000, pct |-> -20, price |-> 1200],
       [code |-> "600002", main_net |-> -500000, pct |-> 30, price |-> 800]>>,
     <<[code |-> "600001", main_net |-> 0, pct |-> 0, price |-> 1200],
       [code |-> "600002", main_net |-> 0, pct |-> 0, price |-> 800]>>,
     <<[code |-> "600001", main_net |-> Bad, pct |-> 35, price |-> 1200]>>}

\* the quote feed: not fetched, or quotes without a change
StockInfoFeeds ==
    {<<>>,
     <<[code |-> "600001", price |-> 1210, pct |-> 0, turnover |-> 12,
        volume |-> 100, amount |-> 1000],
       [code |-> "600002", price |-> 790, pct |-> 0, turnover |-> 8,
        volume |-> 200, amount |-> 1500]>>}

\* what get_sector_history_by_index returns: nothing, or daily aggregates
DailyHistories ==
    {<<>>,
     [i \in 1..2 |->
        [date |-> i, pct |-> <<12, -7>>[i], inflow |-> <<300, -200>>[i],
         turnover |-> 10, rising_count |-> <<2, 1>>[i], total_count |-> 2,
         rising_ratio |-> <<100, 50>>[i]]]}

\* get_sector_data_by_index(index_code)
CallSectorByIndex ==
    /\ pc = "idle"
    /\ \E constituents \in ConstituentTables, fund_flow_data \in FundFlowFeeds,
          stock_info_data \in StockInfoFeeds, history_data \in DailyHistories,
          index_stock \in Catalogs, index_code \in IndexCodes :
          \E constituents_again \in {constituents, <<>>} :
            LET got == GetSectorDataByIndex(index_code, constituents, constituents_again,
                                            fund_flow_data, stock_info_data,
                                            history_data, index_stock)
            IN  /\ call' = [op |-> "sector_by_index", index_code |-> index_code,
                            constituents |-> constituents,
                            history_data |-> history_data,
                            fund_flow_data |-> fund_flow_data,
                            stock_info_data |-> stock_info_data,
                            stock_data |-> got.stock_data,
                            sector_data |-> got.sector_data]
                /\ result' = got.out
                /\ warned' = got.log
    /\ raised' = FALSE
    /\ pc' = "returned"
    /\ UNCHANGED <<cache, locals, fetcher>>

\* the display names of the catalog, and the catalogs: any choice of at most
\* MaxCatalog of them, in this order or the reverse
MaxCatalog == 6

DisplayNames ==
    <<<<"b", "a", "n", "k">>, <<"b", "a">>, <<"a", "b">>, <<"n", "k">>,
      <<"b", "a", "n", "k", "s">>, <<"k", "a", "n">>, <<"b", " ", "k">>, <<"a">>>>

RECURSIVE Chosen(_, _)
Chosen(names, picked) ==
    IF names = <<>> THEN <<>>
    ELSE LET rest == Chosen(Tail(names), {k - 1 : k \in picked \ {1}})
         IN  IF 1 \in picked THEN <<Head(names)>> \o rest ELSE rest

Reversed(t) == [k \in 1..Len(t) |-> t[Len(t) + 1 - k]]

NameCatalog(names) ==
    [k \in 1..Len(names) |->
        [index_code |-> "00000" \o ToString(Len(names[k])) \o names[k][1],
         display_name |-> names[k]]]

NameCatalogs ==
    LET picks == {picked \in SUBSET (1..Len(DisplayNames)) : Cardinality(picked) <= MaxCatalog}
    IN  {NameCatalog(Chosen(DisplayNames, picked)) : picked \in picks}
        \cup {NameCatalog(Reversed(Chosen(DisplayNames, picked))) : picked \in picks}

Queries ==
    {<<>>, <<" ">>, <<" ", " ">>, <<"b", "a">>, <<" ", "b", "a", " ">>,
     <<"b", "a", "n", "k">>, <<"b", "a", "n", "k", "s", "!">>, <<"k", "n">>, <<"x">>,
     <<"a", " ", "b">>}

\* what ak.index_stock_info() answers: at most MaxFrame rows, a code may
\* come twice under two names
MaxFrame == 2

IndexRows ==
    {[index_code |-> "000300", display_name |-> <<"b", "a", "n", "k">>],
     [index_code |-> "000905", display_name |-> <<"b", "a">>],
     [index_code |-> "000300", display_name |-> <<"n", "k">>]}

IndexFrames == UNION {[1..n -> IndexRows] : n \in 0..MaxFrame}

Upstreams ==
    {[raises |-> TRUE, index_df |-> <<>>]}
        \cup {[raises |-> FALSE, index_df |-> index_df] : index_df \in IndexFrames}

\* the values of time.time(), in seconds after the fetcher was built: around
\* half of, the whole of and twice the cache's lifetime
Times ==
    {0, 1, CacheDuration \div 2, CacheDuration - 1, CacheDuration,
     CacheDuration + 1, 2 * CacheDuration}

\* get_index_stock_info(), called again and again on one fetcher while the
\* clock does not run backwards
CallIndexStockInfo ==
    /\ pc = "idle" \/ (pc = "returned" /\ call.op = "index_stock_info")
    /\ \E current_time \in Times, upstream \in Upstreams :
          /\ call.op = "index_stock_info" => current_time >= call.current_time
          /\ LET got == GetIndexStockInfo(fetcher, current_time, upstream)
             IN  /\ call' = [op |-> "index_stock_info", current_time |-> current_time,
                             upstream |-> upstream, fetched |-> got.fetched]
                 /\ result' = got.out
                 /\ warned' = got.log
                 /\ fetcher' = got.self
    /\ raised' = FALSE
    /\ pc' = "returned"
    /\ UNCHANGED <<cache, locals>>

\* search_similar_sectors(query)
CallSearch ==
    /\ pc = "idle"
    /\ \E query \in Queries, index_stock \in NameCatalogs :
          LET got == SearchSimilarSectors(query, index_stock)
          IN  /\ call' = [op |-> "search", query |-> query, index_stock |-> index_stock]
              /\ result' = got.out
              /\ warned' = got.log
    /\ raised' = FALSE
    /\ pc' = "returned"
    /\ UNCHANGED <<cache, locals, fetcher>>

\* what the provider answers for an index: at most MaxRaw constituents
\* with their weights in percent (0 where it gives none), and the same without
\* the weight column; index_stock_top_n is configured between 1 and MaxRaw
MaxRaw == 3

RawWeights == {0, 2, 3, 5}

RawRow(i, weight) ==
    [code |-> "60000" \o ToString(i), name |-> "stock" \o ToString(i), weight |-> weight]

RawConstituents ==
    LET full == TablesOf(RawWeights, MaxRaw, RawRow)
    IN  full \cup {DropCol(t, "weight") : t \in full \ {<<>>}}

\* get_index_constituents(index_code)
CallConstituents ==
    /\ pc = "idle"
    /\ \E constituents_data \in RawConstituents, top_n \in 1..MaxRaw :
          /\ call' = [op |-> "constituents", index_code |-> "000300",
                      constituents_data |-> constituents_data, top_n |-> top_n]
          /\ result' = GetIndexConstituents(constituents_data, "000300", top_n)
    /\ raised' = FALSE
    /\ pc' = "returned"
    /\ UNCHANGED <<warned, cache, locals, fetcher>>

SectorNext ==
    \/ CallIndexStockInfo
    \/ CallConstituents
    \/ CallSearch
    \/ CallSectorByIndex
    \/ CallAggregate
    \/ CallIndexDetail
    \/ CallProcessSector
    \/ CallSectorHistory
    \/ CallSectorDetail

\* get_margin_trading_summary alone, whatever an earlier run left in the cache
SummaryInit ==
    /\ pc = "idle"
    /\ call = NoCall
    /\ result = <<>>
    /\ raised = FALSE
    /\ warned = {}
    /\ cache \in CacheEntries
    /\ locals = NoLocals
    /\ fetcher = NewFetcher

SummarySpec == SummaryInit /\ [][SummaryNext]_vars

\* _merge_sh_sz_margin_data alone
MergeSpec == Init /\ [][CallMerge]_vars

\* the processor alone
ProcessorSpec == Init /\ [][ProcessorNext]_vars

\* the sector operations alone
SectorSpec == Init /\ [][SectorNext]_vars

Next ==
    \/ CallMerge
    \/ SummaryNext
    \/ ProcessorNext
    \/ SectorNext

Spec == Init /\ [][Next]_vars

----------------------------------------------------------------------------
(* Claims about the exchange co-merge *)

MergeReturned == pc = "returned" /\ call.op = "merge"

\* the rows of a raw table dated inside the call's [start_date, end_date]
RowsInRange(t) ==
    {i \in 1..Len(t) : /\ Ymd(t[i].date) >= call.start_date
                       /\ Ymd(t[i].date) <= call.end_date}

\* the last TailN rows of a raw table
RowsInTail(t) == {i \in 1..Len(t) : i > Len(t) - TailN}

SummedFields == {"fin_buy", "fin_bal", "short_vol", "short_bal", "margin_total"}

\* C1: after the co-merge of two date-filtered exchange tables, every pair of a
\* Shanghai row and a Shenzhen row of one date has a merged row of that date
\* whose summed fields are the Shanghai value plus the Shenzhen value, and every
\* merged row is such a sum.
C1_MergeSums ==
    MergeReturned =>
        LET sh == call.sh_data
            sz == call.sz_data
            ins == RowsInRange(sh)
            inz == RowsInRange(sz)
            fields(i, j) == {c \in SummedFields \cap DOMAIN sh[i] \cap DOMAIN sz[j] :
                                IsNum(sh[i][c]) /\ IsNum(sz[j][c])}
            IsSum(row, i, j) ==
                /\ row.date = Ymd(sh[i].date)
                /\ \A c \in fields(i, j) :
                      c \in DOMAIN row /\ row[c] = sh[i][c] + sz[j][c]
        IN  (ins # {} /\ inz # {}) =>
              /\ \A i \in ins, j \in inz :
                    sh[i].date = sz[j].date =>
                        \E k \in 1..Len(result) : IsSum(result[k], i, j)
              /\ \A k \in 1..Len(result) :
                    \E i \in ins, j \in inz :
                        sh[i].date = sz[j].date /\ IsSum(result[k], i, j)

\* financing balances 100 and 50 on 20240102 were merged into 150
C1_Witness ==
    /\ MergeReturned
    /\ \E i \in RowsInRange(call.sh_data), j \in RowsInRange(call.sz_data) :
          /\ call.sh_data[i].date = 2 /\ call.sz_data[j].date = 2
          /\ call.sh_data[i].fin_bal = 100 /\ call.sz_data[j].fin_bal = 50
    /\ \E k \in 1..Len(result) :
          result[k].date = 20240102 /\ result[k].fin_bal = 150

\* C6: when a date-filtered slice is empty the merge runs on the last TailN rows
\* of both unfiltered tables, logs a warning and does not raise; otherwise every
\* merged row is dated inside [start_date, end_date].
C6_Fallback ==
    MergeReturned =>
        LET sh == call.sh_data
            sz == call.sz_data
            dates(t, rows) == {Ymd(t[i].date) : i \in rows}
            got == {result[k].date : k \in 1..Len(result)}
        IN  /\ ~raised
            /\ (RowsInRange(sh) = {} \/ RowsInRange(sz) = {}) =>
                  /\ got = dates(sh, RowsInTail(sh)) \cap dates(sz, RowsInTail(sz))
                  /\ warned \cap {"range_empty_fallback", "empty_side"} # {}
            /\ (RowsInRange(sh) # {} /\ RowsInRange(sz) # {}) =>
                  \A d \in got : d >= call.start_date /\ d <= call.end_date

\* the fallback ran on tables longer than TailN rows: day 1 is in both raw
\* tables but not among their last TailN rows, and is not in the result
C6_Witness ==
    /\ MergeReturned
    /\ "range_empty_fallback" \in warned
    /\ Len(call.sh_data) > TailN /\ Len(call.sz_data) > TailN
    /\ call.sh_data[1].date = 1 /\ call.sz_data[1].date = 1
    /\ result # <<>>
    /\ \A k \in 1..Len(result) : result[k].date # Ymd(1)

----------------------------------------------------------------------------
(* Claims about get_margin_trading_summary *)

SummaryReturned == pc = "returned" /\ call.op = "summary"

\* the providers were asked (no cache hit, no invalid range) and the call returned
ProvidersAnswered == SummaryReturned /\ call.consulted

StrictlyAscending(t, col) ==
    \A i \in 1..(Len(t) - 1) : t[i][col] < t[i + 1][col]

\* C2: the series get_margin_trading_summary returns has strictly ascending
\* dates, hence one row per date, whichever provider produced it.
C2_SortedUnique ==
    (SummaryReturned /\ ~raised) => StrictlyAscending(result, "trade_date")

\* C3: the returned table is one provider's table as a whole: AKShare's when it
\* is non-empty, else the longer of TuShare's and Eastmoney's, TuShare's on a tie.
C3_Selection ==
    ProvidersAnswered =>
        LET ak == locals.akshare_data
            ts == locals.tushare_data
            em == locals.eastmoney_data
        IN  /\ result \in {ak, ts, em}
            /\ ak # <<>> => result = ak
            /\ (ak = <<>> /\ Len(ts) >= Len(em)) => result = ts
            /\ (ak = <<>> /\ Len(em) > Len(ts)) => result = em

\* AKShare had nothing, TuShare and Eastmoney had different tables of one length
C3_Witness ==
    /\ ProvidersAnswered
    /\ locals.akshare_data = <<>>
    /\ locals.tushare_data # <<>>
    /\ Len(locals.tushare_data) = Len(locals.eastmoney_data)
    /\ locals.tushare_data # locals.eastmoney_data
    /\ result = locals.tushare_data

\* C4: when every provider yields nothing for a valid range the call returns an
\* empty table, does not raise and leaves the cache as it was.
C4_AllEmpty ==
    (/\ ProvidersAnswered
     /\ locals.akshare_data = <<>>
     /\ locals.tushare_data = <<>>
     /\ locals.eastmoney_data = <<>>)
        => /\ result = <<>>
           /\ ~raised
           /\ cache = call.cache0

\* every provider failed internally or answered with nothing, caching was on
C4_Witness ==
    /\ ProvidersAnswered
    /\ call.use_cache
    /\ {"akshare_failed", "eastmoney_failed"} \subseteq warned
    /\ locals.tushare_data = <<>>
    /\ result = <<>>
    /\ "all_sources_failed" \in warned

----------------------------------------------------------------------------
(* Claims about process_margin_summary *)

ProcessReturned == pc = "returned" /\ call.op = "process"

\* the processed table carries every stage (no stage raised)
FullyProcessed == ProcessReturned /\ result # <<>> /\ "process_failed" \notin warned

\* C7: on every row with both balances present and a positive combined balance
\* the financing share and the short share add up to 100 within 0.01, whether
\* the combined balance was computed or came with the input.
C7_RatioSum ==
    FullyProcessed =>
        \A i \in 1..Len(result) :
            LET row == result[i]
            IN  (/\ {"fin_bal", "short_bal", "total_bal"} \subseteq DOMAIN row
                 /\ IsNum(row.fin_bal) /\ IsNum(row.short_bal)
                 /\ IsNum(row.total_bal) /\ row.total_bal > 0)
                => /\ {"fin_share", "short_share"} \subseteq DOMAIN row
                   /\ IsNum(row.fin_share) /\ IsNum(row.short_share)
                   /\ Abs(row.fin_share + row.short_share - 10000) <= 1

\* C8: every RSI value is undefined or lies in [0, 100], also where the window
\* holds no loss.
C8_RsiBounds ==
    FullyProcessed =>
        \A i \in 1..Len(result), k \in 1..Len(rsi_columns) :
            LET rsi_col == rsi_columns[k] \o "_RSI"
            IN  rsi_columns[k] \in DOMAIN result[i] =>
                    /\ rsi_col \in DOMAIN result[i]
                    /\ \/ result[i][rsi_col] = NaN
                       \/ /\ IsNum(result[i][rsi_col])
                          /\ 0 <= result[i][rsi_col]
                          /\ result[i][rsi_col] <= 10000

\* a window without any change (RSI undefined) and one with gains only (RSI 100)
C8_Witness ==
    /\ FullyProcessed
    /\ Len(result) = 3
    /\ result[2].fin_bal = result[1].fin_bal
    /\ result[3].fin_bal > result[2].fin_bal
    /\ result[2].fin_bal_RSI = NaN
    /\ result[3].fin_bal_RSI = 10000

\* C9: wherever the three rounded bands are defined, lower <= middle <= upper;
\* and the band position is undefined wherever upper equals lower.
C9_BollingerOrder ==
    FullyProcessed =>
        \A i \in 1..Len(result), k \in 1..Len(bollinger_columns) :
            LET col == bollinger_columns[k]
                up == result[i][col \o "_boll_up"]
                mid == result[i][col \o "_boll_mid"]
                low == result[i][col \o "_boll_low"]
                pos == result[i][col \o "_boll_pos"]
            IN  col \in DOMAIN result[i] =>
                    /\ (IsNum(up) /\ IsNum(mid) /\ IsNum(low))
                            => (low <= mid /\ mid <= up)
                    /\ up = low => ~IsNum(pos)

\* a flat window (upper = lower, position undefined) followed by a wider one
C9_Witness ==
    /\ FullyProcessed
    /\ Len(result) = 3
    /\ IsNum(result[2].fin_bal_boll_up)
    /\ result[2].fin_bal_boll_up = result[2].fin_bal_boll_low
    /\ result[2].fin_bal_boll_pos = NaN
    /\ result[3].fin_bal_boll_low < result[3].fin_bal_boll_mid
    /\ result[3].fin_bal_boll_mid < result[3].fin_bal_boll_up
    /\ IsNum(result[3].fin_bal_boll_pos)

\* the financing balance of a row, NA on a table without the column
FinBalOf(r) == IF "fin_bal" \in DOMAIN r THEN r.fin_bal ELSE NA

\* the rows of the result are the rows of the input, in ascending date order
SortedInput ==
    /\ Len(result) = Len(call.margin_data)
    /\ \A i \in 1..(Len(result) - 1) :
            result[i].trade_date <= result[i + 1].trade_date
    /\ {<<r.trade_date, FinBalOf(r)>> : r \in {result[i] : i \in 1..Len(result)}}
       = {<<ParseYmd(r.trade_date), FinBalOf(r)>> :
            r \in {call.margin_data[i] : i \in 1..Len(call.margin_data)}}

\* pct (hundredths) is (v - prev) / prev * 100 rounded to 2 decimals
IsPctOf(pct, v, prev) ==
    IF prev = 0 THEN ~IsNum(pct)
    ELSE IsNum(pct) /\ 2 * Abs(pct * prev - 10000 * (v - prev)) <= Abs(prev)

\* C10: in ascending date order, each tracked field's day-over-day percent
\* change is (v[i] - v[i-1]) / v[i-1] * 100 rounded to 2 decimals, undefined on
\* the first row; the 5-period and 20-period changes are undefined on the
\* first 5 and the first 20 rows.
C10_ChangeMetrics ==
    FullyProcessed =>
        /\ SortedInput
        /\ \A i \in 1..Len(result), k \in 1..Len(change_columns) :
              LET col == change_columns[k]
                  row == result[i]
              IN  col \in DOMAIN row =>
                    /\ i = 1 => row[col \o "_pct1"] = NaN
                    /\ i > 1 => IsPctOf(row[col \o "_pct1"], row[col],
                                        result[i - 1][col])
                    /\ i <= 5 => row[col \o "_pct5"] = NaN
                    /\ i <= 20 => row[col \o "_pct20"] = NaN

\* a series given newest first that starts 100, 110 and is long enough for
\* the 20-period change
C10_Witness ==
    /\ FullyProcessed
    /\ Len(result) > 20
    /\ call.margin_data[1].trade_date > call.margin_data[2].trade_date
    /\ result[1].fin_bal = 100 /\ result[2].fin_bal = 110
    /\ result[1].fin_bal_pct1 = NaN
    /\ result[2].fin_bal_pct1 = 1000
    /\ IsNum(result[6].fin_bal_pct5)
    /\ result[20].fin_bal_pct20 = NaN
    /\ IsNum(result[21].fin_bal_pct20)

----------------------------------------------------------------------------
(* Claims about empty inputs *)

Returned(op) == pc = "returned" /\ call.op = op

\* an analysis without constituents: every count is 0, every ranking, the
\* strength analysis and the raw table are empty
IsEmptyAnalysis(a) ==
    /\ \A k \in {"total_stocks", "inflow_stocks", "outflow_stocks",
                 "rising_stocks", "falling_stocks"} : a.summary[k] = 0
    /\ \A k \in DOMAIN a.stock_rankings : a.stock_rankings[k] = <<>>
    /\ DOMAIN a.strength_analysis = {}
    /\ a.raw_data = <<>>

\* C5: given an empty input table each operation returns its empty result and
\* does not raise: the empty table from process_margin_summary, from
\* _merge_sh_sz_margin_data (either side empty) and from _aggregate_sector_data,
\* the empty mapping from analyze_margin_trends, process_sector_data and
\* analyze_sector_history, and the analysis without constituents from
\* analyze_sector_detail and analyze_index_sector_detail.
C5_EmptyInputs ==
    /\ (Returned("process") /\ call.margin_data = <<>>)
          => ~raised /\ result = <<>>
    /\ (Returned("analyze") /\ call.df = <<>>)
          => ~raised /\ DOMAIN result = {}
    /\ (Returned("merge") /\ (call.sh_data = <<>> \/ call.sz_data = <<>>))
          => ~raised /\ result = <<>>
    /\ (Returned("aggregate") /\ call.stock_data = <<>>)
          => ~raised /\ result = <<>>
    /\ (Returned("process_sector") /\ call.sector_data = <<>>)
          => ~raised /\ DOMAIN result = {}
    /\ (Returned("sector_history") /\ call.history_data = <<>>)
          => ~raised /\ DOMAIN result = {}
    /\ (Returned("sector_detail") /\ call.detail_data = <<>>)
          => /\ ~raised
             /\ result.sector_name = call.sector_name
             /\ IsEmptyAnalysis(result)
    /\ (Returned("index_detail") /\ call.sector_data = <<>>)
          => /\ ~raised
             /\ result.index_code = call.index_code
             /\ IsEmptyAnalysis(result)

\* an empty constituent table was aggregated into the empty table, and the
\* index analysis of that table is the one without constituents
C5_Witness ==
    /\ Returned("index_detail")
    /\ call.stock_data = <<>>
    /\ call.sector_data = <<>>
    /\ result.sector_name = "hs300"
    /\ result.summary.total_stocks = 0
    /\ result.raw_data = <<>>

----------------------------------------------------------------------------
(* Claims about the sector snapshot *)

\* the constituent table has rows and the columns the aggregation reads
Aggregable(t) ==
    t # <<>> /\ {"weight", "pct", "turnover", "inflow"} \subseteq Columns(t)

\* the fraction q equals sum(value * weight) / sum(weight) over t
IsWeightedMean(q, t, c) ==
    /\ q.den # 0
    /\ q.num * SumCol(t, "weight") = q.den * SumProduct(t, c, "weight", 1)

\* C11: for a non-empty constituent table whose weights do not sum to 0 the
\* snapshot's percent change and turnover are sum(value * weight) / sum(weight)
\* (a single constituent yields its own values); when the weights sum to 0 the
\* snapshot is empty and nothing is raised.
C11_WeightedAggregation ==
    (Returned("aggregate") /\ Aggregable(call.stock_data)) =>
        LET t == call.stock_data
        IN  /\ ~raised
            /\ SumCol(t, "weight") = 0 => result = <<>>
            /\ SumCol(t, "weight") # 0 =>
                  /\ Len(result) = 1
                  /\ IsWeightedMean(result[1].pct, t, "pct")
                  /\ IsWeightedMean(result[1].turnover, t, "turnover")
                  /\ Len(t) = 1 =>
                        /\ result[1].pct.num = t[1].pct * result[1].pct.den
                        /\ result[1].turnover.num = t[1].turnover * result[1].turnover.den

\* weights 0.5, 0.3, 0.2 and changes 2, -1, 4 percent were aggregated into 1.5
C11_Witness ==
    /\ Returned("aggregate")
    /\ Len(call.stock_data) = 3
    /\ Aggregable(call.stock_data)
    /\ [i \in 1..3 |-> call.stock_data[i].weight] = <<5, 3, 2>>
    /\ [i \in 1..3 |-> call.stock_data[i].pct] = <<20, -10, 40>>
    /\ Len(result) = 1
    /\ 10 * result[1].pct.num = 150 * result[1].pct.den

----------------------------------------------------------------------------
(* Claims about undefined metrics *)

\* the sum of the positive inflows of a constituent table
PositiveInflow(t) == SumCol(Positive(t, "inflow"), "inflow")

\* C12: a derived value whose denominator is zero is undefined (not a finite
\* number), never 0, and nothing is raised: the latest financing and short
\* shares of analyze_margin_trends when the latest combined balance is 0, the
\* per-row shares and the financing turnover of _calculate_basic_metrics, and
\* the capital concentration of the two strength analyses when no constituent
\* has a positive inflow.
C12_UndefinedNotZero ==
    /\ (Returned("analyze") /\ "structure" \in DOMAIN result
            /\ call.df[Len(call.df)].total_bal = 0)
          => /\ ~raised
             /\ ~IsNum(result.structure.fin_ratio)
             /\ ~IsNum(result.structure.short_ratio)
    /\ FullyProcessed =>
          \A i \in 1..Len(result) :
              LET row == result[i]
              IN  /\ ("fin_share" \in DOMAIN row /\ row.total_bal = 0)
                        => ~IsNum(row.fin_share) /\ ~IsNum(row.short_share)
                  /\ ("fin_turnover" \in DOMAIN row /\ row.fin_bal = 0)
                        => ~IsNum(row.fin_turnover)
    /\ (Returned("index_detail") /\ DOMAIN result.strength_analysis # {}
            /\ PositiveInflow(result.raw_data) = 0)
          => ~raised /\ ~IsNum(result.strength_analysis.concentration)
    /\ (Returned("sector_detail") /\ DOMAIN result.strength_analysis # {}
            /\ PositiveInflow(result.raw_data) = 0)
          => ~raised /\ ~IsNum(result.strength_analysis.concentration)

----------------------------------------------------------------------------
(* Claims about malformed cells *)

\* C13: a non-numeric cell makes the merged value of its field and date
\* missing, and never contributes 0 to a sum: every numeric merged value is
\* the sum of a numeric Shanghai cell and a numeric Shenzhen cell of that
\* date, so a merged value never equals one side's value alone.
C13_MalformedMissing ==
    MergeReturned =>
        LET sh == call.sh_data
            sz == call.sz_data
        IN  \A k \in 1..Len(result) :
                \A c \in SummedFields \cap DOMAIN result[k] :
                    IsNum(result[k][c]) =>
                        \E i \in 1..Len(sh), j \in 1..Len(sz) :
                            /\ Ymd(sh[i].date) = result[k].date
                            /\ Ymd(sz[j].date) = result[k].date
                            /\ c \in DOMAIN sh[i] /\ c \in DOMAIN sz[j]
                            /\ IsNum(sh[i][c]) /\ IsNum(sz[j][c])
                            /\ result[k][c] = sh[i][c] + sz[j][c]

----------------------------------------------------------------------------
(* Claims about the stages of process_margin_summary *)

ColumnSet(names) == {names[k] : k \in 1..Len(names)}

\* the table carries the columns of every stage that applies to its columns,
\* the market ratios included when a market table was given
AllStagesApplied(t, market_data) ==
    LET cols == Columns(t)
    IN  /\ {"fin_bal", "short_bal"} \subseteq cols => "net_fin" \in cols
        /\ "total_bal" \in cols => "maint_ratio" \in cols
        /\ \A c \in ColumnSet(change_columns) \cap cols : (c \o "_pct1") \in cols
        /\ \A c \in ColumnSet(ma_columns) \cap cols : (c \o "_MA5") \in cols
        /\ (market_data # <<>> /\ "total_bal" \in cols) => "total_to_market" \in cols
        /\ (market_data # <<>> /\ "fin_buy" \in cols) => "fin_buy_to_market" \in cols
        /\ \A c \in ColumnSet(rsi_columns) \cap cols : (c \o "_RSI") \in cols
        /\ \A c \in ColumnSet(bollinger_columns) \cap cols : (c \o "_boll_pos") \in cols

\* C14: for a non-empty input process_margin_summary returns the table with
\* every stage applied (market ratios when a market table is given) or the
\* empty table; a stage that fails never leaves a table with only some of the
\* stages applied.
C14_NoPartialResult ==
    (ProcessReturned /\ call.margin_data # <<>>) =>
        \/ result = <<>>
        \/ AllStagesApplied(result, call.market_data)

\* the metric columns an input table may carry
MetricColumns == {"fin_bal", "short_bal", "fin_buy", "total_bal"}

\* the rows of t that are dated d and hold the values of row r in the columns cs
SameRows(t, d, r, cs, date_of(_)) ==
    {i \in 1..Len(t) : date_of(t[i].trade_date) = d /\ \A c \in cs : t[i][c] = r[c]}

\* C15: the table process_margin_summary returns has one row per input row,
\* with the input's dates, and holds on each date the input's values in every
\* metric column the input carries (financing balance, short balance, buy-in
\* amount, and the combined balance when supplied): stages only add columns.
C15_AppendOnly ==
    (ProcessReturned /\ call.margin_data # <<>>) =>
        LET input == call.margin_data
            cs == MetricColumns \cap Columns(input)
        IN  /\ Len(result) = Len(input)
            /\ Columns(input) \subseteq Columns(result)
            /\ \A i \in 1..Len(input) :
                  LET d == ParseYmd(input[i].trade_date)
                  IN  Cardinality(SameRows(result, d, input[i], cs, LAMBDA x : x))
                        = Cardinality(SameRows(input, d, input[i], cs, ParseYmd))

\* a series given newest first with its own combined balance, and a market
\* table: every stage ran, the rows were reordered, the supplied balance kept
C15_Witness ==
    /\ FullyProcessed
    /\ call.market_data # <<>>
    /\ Len(call.margin_data) >= 2
    /\ call.margin_data[1].trade_date > call.margin_data[2].trade_date
    /\ "total_bal" \in Columns(call.margin_data)
    /\ "total_to_market" \in Columns(result)
    /\ result[1].total_bal # result[1].fin_bal + result[1].short_bal
    /\ result[1].total_bal = call.margin_data[Len(call.margin_data)].total_bal

----------------------------------------------------------------------------
(* Claims about the caller's tables *)

\* C16: after process_margin_summary, _merge_sh_sz_margin_data and
\* analyze_sector_detail return, the tables the caller passed (margin and
\* market table, both exchange tables, detail table) have the columns, the
\* values and the row order they had before the call.
C16_ArgumentsUnchanged ==
    /\ Returned("process") => call.market_after = call.market_data
    /\ Returned("merge") =>
          call.sh_after = call.sh_data /\ call.sz_after = call.sz_data
    /\ Returned("sector_detail") => call.detail_after = call.detail_data

----------------------------------------------------------------------------
(* Claims about the processing of a complete series *)

\* a non-empty table with the date and the four metric columns, all positive
PositiveComplete(t) ==
    /\ t # <<>>
    /\ {"trade_date"} \cup MetricColumns \subseteq Columns(t)
    /\ \A i \in 1..Len(t), c \in MetricColumns : IsNum(t[i][c]) /\ t[i][c] > 0

\* C17: for a non-empty margin table with the date, financing balance, short
\* balance, buy-in amount and combined balance, all positive,
\* process_margin_summary returns a non-empty table with the financing share
\* and the combined balance's daily change rate, and analyze_margin_trends on
\* that table returns a mapping with the overview section.
C17_CompleteSeries ==
    /\ (Returned("process") /\ PositiveComplete(call.margin_data))
          => /\ result # <<>>
             /\ {"fin_share", "total_bal_pct1"} \subseteq Columns(result)
    /\ (Returned("analyze") /\ PositiveComplete(call.margin_data))
          => /\ {"fin_share", "total_bal_pct1"} \subseteq Columns(call.df)
             /\ "overview" \in DOMAIN result
             /\ result.overview.days = Len(call.margin_data)

\* a complete positive series of several days was processed and analysed
C17_Witness ==
    /\ Returned("analyze")
    /\ PositiveComplete(call.margin_data)
    /\ Len(call.margin_data) >= 2
    /\ IsNum(call.df[2].total_bal_pct1)
    /\ call.df[1].fin_share > 0
    /\ result.overview.start = Ymd(1)
    /\ result.overview.days = Len(call.df)

----------------------------------------------------------------------------
(* Claims about get_sector_data_by_index *)

\* the snapshot is the one built from history row h: its figures, the
\* constituents' price, change and flow zeroed
BuiltFromHistory(t, h) ==
    /\ Len(t) = 1
    /\ t[1].pct.num = h.pct * t[1].pct.den
    /\ t[1].turnover.num = h.turnover * t[1].turnover.den
    /\ \A k \in 1..Len(t[1].constituents) :
          LET stock == t[1].constituents[k]
          IN  stock.pct = 0 /\ stock.inflow = 0 /\ stock.price = 0

\* C18: when the real-time data is unavailable (no real-time constituent rows,
\* or an empty real-time snapshot) and a history exists, the result is built
\* from the most recent history row with the constituents' detail zeroed and
\* differs from the real-time snapshot; a snapshot computed from what a
\* real-time feed answered is returned as it is, never replaced by history.
C18_FallbackPolicy ==
    (Returned("sector_by_index") /\ call.constituents # <<>>) =>
        LET unavailable == call.stock_data = <<>> \/ call.sector_data = <<>>
            answered == call.fund_flow_data # <<>> \/ call.stock_info_data # <<>>
            history == call.history_data
        IN  /\ ~raised
            /\ (unavailable /\ history # <<>>) =>
                  /\ result # <<>>
                  /\ BuiltFromHistory(result, history[Len(history)])
                  /\ result # call.sector_data
            /\ (answered /\ ~unavailable) => result = call.sector_data

----------------------------------------------------------------------------
(* Claims about search_similar_sectors *)

\* the score the documentation gives: the base similarity, 0.3 more when the
\* query is part of the name, 0.2 more when the name is part of the query
\* (compared as fractions)
DocumentedScore(score, query, display_name) ==
    LET base == Ratio(query, display_name)
        tenths == (IF IsSubstring(query, display_name) THEN 3 ELSE 0)
                  + (IF IsSubstring(display_name, query) THEN 2 ELSE 0)
    IN  score.num * 10 * base.den = (10 * base.num + tenths * base.den) * score.den

----------------------------------------------------------------------------
(* Claims about the strength classification *)

\* the label the documentation gives a constituent table: strong_ratio is
\* the percentage of constituents that gained more than 3%, limit_up the
\* number that gained 9.5% or more
DocumentedStrength(df) ==
    LET strong == Cardinality({i \in 1..Len(df) : df[i].pct > 30})
        limit_up == Cardinality({i \in 1..Len(df) : df[i].pct >= 95})
        ratio_at_least(p) == 100 * strong >= p * Len(df)
    IN  IF ratio_at_least(50) /\ limit_up >= 3 THEN "very_strong"
        ELSE IF ratio_at_least(30) /\ limit_up >= 1 THEN "strong"
        ELSE IF ratio_at_least(20) THEN "medium"
        ELSE IF ratio_at_least(10) THEN "weak"
        ELSE "very_weak"

\* the constituent table the analysis that returned was given
GradedTable ==
    IF call.op = "index_detail" THEN call.sector_data[1].constituents
    ELSE call.detail_after

\* an analysis of constituents returned with a strength section
StrengthReturned ==
    /\ Returned("index_detail") \/ Returned("sector_detail")
    /\ DOMAIN result.strength_analysis # {}

----------------------------------------------------------------------------
(* Claims about the capital concentration *)

\* the positive net inflows of the rows chosen, summed
PositiveInflowOf(df, chosen) ==
    LET upto[i \in 0..Len(df)] ==
            IF i = 0 THEN 0
            ELSE upto[i - 1] + (IF i \in chosen /\ df[i].inflow > 0 THEN df[i].inflow ELSE 0)
    IN  upto[Len(df)]

\* the choices of the five largest-weight constituents: five rows (all of
\* them in a smaller table) that no row left out outweighs; a table without
\* weights leaves the choice open
LargestByWeight(df) ==
    {chosen \in SUBSET (1..Len(df)) :
        /\ Cardinality(chosen) = Min(5, Len(df))
        /\ "weight" \in Columns(df) =>
              \A i \in chosen, j \in (1..Len(df)) \ chosen : df[i].weight >= df[j].weight}

\* the leadership label of the share top / total
DocumentedLeadership(top, total) ==
    IF 100 * top > 60 * total THEN "strong"
    ELSE IF 100 * top > 30 * total THEN "moderate"
    ELSE "diffuse"

\* C21: where some constituent has a positive net inflow, the concentration
\* the strength analysis reports is (sum of the positive net inflows among the
\* five largest-weight constituents) / (sum of all positive net inflows) * 100,
\* shown to one decimal, and the leadership label is strong iff it is above 60,
\* moderate iff above 30 and at most 60, else diffuse.
C21_Concentration ==
    (StrengthReturned /\ PositiveInflow(GradedTable) > 0) =>
        \E chosen \in LargestByWeight(GradedTable) :
            LET top == PositiveInflowOf(GradedTable, chosen)
                total == PositiveInflow(GradedTable)
            IN  /\ result.strength_analysis.concentration = Percent1(top, total)
                /\ result.strength_analysis.leadership = DocumentedLeadership(top, total)

\* C28: for every non-empty constituent table, whatever the mix of positive,
\* zero and negative net inflows, the capital concentration computed by either
\* strength analysis lies in [0, 100] (the value is held in tenths of a percent).
C28_ConcentrationShare ==
    StrengthReturned =>
        /\ result.strength_analysis.concentration >= 0
        /\ result.strength_analysis.concentration <= 100 * 10

----------------------------------------------------------------------------
(* Claims about the trend and the risk tier of analyze_margin_trends *)

\* the rows among the last five of the analysed table whose daily change of
\* the combined balance is a number
RecentDefined ==
    LET s == Col(call.df, "total_bal_pct1")
    IN  {j \in 1..Len(s) : j > Len(s) - 5 /\ IsNum(s[j])}

\* the sum of these changes, in hundredths of a percent
RecentSum ==
    LET s == Col(call.df, "total_bal_pct1")
        upto[j \in 0..Len(s)] ==
            IF j = 0 THEN 0
            ELSE upto[j - 1] + (IF j \in RecentDefined THEN s[j] ELSE 0)
    IN  upto[Len(s)]

\* every change among the last five rows is a number or undefined
RecentFinite ==
    LET s == Col(call.df, "total_bal_pct1")
    IN  \A j \in 1..Len(s) : j > Len(s) - 5 => s[j] \notin {PInf, NInf}

\* an analysis returned for a table with the daily change of the combined
\* balance, some of the last five being defined and none infinite
TrendReturned ==
    /\ Returned("analyze")
    /\ call.df # <<>>
    /\ "total_bal_pct1" \in Columns(call.df)
    /\ RecentDefined # {}
    /\ RecentFinite

\* C22: with m the mean of the defined daily percent changes of the combined
\* balance among the last five rows, the trend is fast rising iff m > 1, mild
\* rising iff 0.1 < m <= 1, flat iff -0.1 < m <= 0.1, mild falling iff
\* -1 < m <= -0.1, and fast falling iff m <= -1.
C22_TrendBands ==
    TrendReturned =>
        LET k == Cardinality(RecentDefined)
            sum == RecentSum
            label == result.trend.trend
        IN  /\ "trend" \in DOMAIN result
            /\ label = "fast_rising" <=> sum > 100 * k
            /\ label = "mild_rising" <=> (10 * k < sum /\ sum <= 100 * k)
            /\ label = "flat" <=> (-10 * k < sum /\ sum <= 10 * k)
            /\ label = "mild_falling" <=> (-100 * k < sum /\ sum <= -10 * k)
            /\ label = "fast_falling" <=> sum <= -100 * k

\* a mean of exactly 1 percent over the defined changes: mild rising
C22_Witness ==
    /\ TrendReturned
    /\ RecentSum = 100 * Cardinality(RecentDefined)
    /\ result.trend.trend = "mild_rising"

\* the combined-balance RSI of the last row of the analysed table
LatestRsi == call.df[Len(call.df)].total_bal_RSI

\* an analysis returned for a table whose last RSI is a number
RiskReturned ==
    /\ Returned("analyze")
    /\ call.df # <<>>
    /\ "total_bal_RSI" \in Columns(call.df)
    /\ IsNum(LatestRsi)

\* C23: with r the combined-balance RSI of the last row, the risk tier is
\* high (overbought) iff r > 70, medium iff 50 < r <= 70, low iff
\* 30 < r <= 50, and oversold iff r <= 30; the report carries the tier and the
\* RSI to two decimals (the RSI is held in hundredths).
C23_RiskTiers ==
    RiskReturned =>
        LET r == LatestRsi
            tier == result.risk.risk_level
        IN  /\ "risk" \in DOMAIN result
            /\ result.risk.rsi = r
            /\ tier = "high" <=> r > 70 * 100
            /\ tier = "medium" <=> (50 * 100 < r /\ r <= 70 * 100)
            /\ tier = "low" <=> (30 * 100 < r /\ r <= 50 * 100)
            /\ tier = "oversold" <=> r <= 30 * 100

\* an RSI of exactly 70: medium
C23_Witness ==
    /\ RiskReturned
    /\ LatestRsi = 70 * 100
    /\ result.risk.risk_level = "medium"

----------------------------------------------------------------------------
(* Claims about the rolling means *)

\* the rows of the window of length k ending at row i whose value is a number
WindowDefined(s, i, k) == {j \in 1..i : j >= i - k + 1 /\ IsNum(s[j])}

\* the sum of the values of the rows chosen
SumOver(s, chosen) ==
    LET upto[j \in 0..Len(s)] ==
            IF j = 0 THEN 0 ELSE upto[j - 1] + (IF j \in chosen THEN s[j] ELSE 0)
    IN  upto[Len(s)]

\* ma, in hundredths, is the mean of the window's values to two decimals
IsMeanOf(ma, s, i, k) ==
    LET over == WindowDefined(s, i, k)
        n == Cardinality(over)
    IN  /\ IsNum(ma)
        /\ 2 * Abs(ma * n - 100 * SumOver(s, over)) <= n

\* dev, in hundredths of a percent, is (x / ma - 1) * 100 to two decimals
IsDeviationOf(dev, x, ma) ==
    /\ IsNum(dev)
    /\ 2 * Abs(dev * ma - 10000 * (100 * x - ma)) <= Abs(ma)

\* the rolling mean of column col over k rows, on row i of the result
MeanHolds(col, k, i) ==
    LET s == Col(result, col)
        ma == result[i][col \o "_MA" \o ToString(k)]
    IN  /\ WindowDefined(s, i, k) # {} => IsMeanOf(ma, s, i, k)
        /\ (i = 1 /\ IsNum(s[1])) => ma = 100 * s[1]

\* the deviation from that mean where the mean is not 0
DeviationHolds(col, k, i) ==
    LET ma == result[i][col \o "_MA" \o ToString(k)]
        dev == result[i][col \o "_MA" \o ToString(k) \o "_dev"]
        x == result[i][col]
    IN  (IsNum(x) /\ IsNum(ma) /\ ma # 0) => IsDeviationOf(dev, x, ma)

\* C24 (as stated): for each window k in {5, 10, 20, 60} and each row i in
\* ascending date order the rolling mean is the mean of the values at rows
\* max(0, i-k+1)..i, defined on every row and equal to the row's own value on
\* the first, and the deviation is (value / rolling mean - 1) * 100, hence 0
\* on the first row.
C24_RollingMeans ==
    FullyProcessed =>
        /\ SortedInput
        /\ \A i \in 1..Len(result), c \in 1..Len(ma_columns), k \in {5, 10, 20, 60} :
              LET col == ma_columns[c]
              IN  (col \in DOMAIN result[i] /\ \A j \in 1..i : IsNum(result[j][col])) =>
                    /\ MeanHolds(col, k, i)
                    /\ DeviationHolds(col, k, i)
                    /\ i = 1 => result[i][col \o "_MA" \o ToString(k) \o "_dev"] = 0

\* C24 (amended): the same, but the deviation is 0 on the first row only
\* where the row's value is not 0; where the rolling mean is 0 the deviation
\* is undefined.
C24_RollingMeansDefined ==
    FullyProcessed =>
        /\ SortedInput
        /\ \A i \in 1..Len(result), c \in 1..Len(ma_columns), k \in {5, 10, 20, 60} :
              LET col == ma_columns[c]
                  ma == result[i][col \o "_MA" \o ToString(k)]
                  dev == result[i][col \o "_MA" \o ToString(k) \o "_dev"]
              IN  (col \in DOMAIN result[i] /\ \A j \in 1..i : IsNum(result[j][col])) =>
                    /\ MeanHolds(col, k, i)
                    /\ DeviationHolds(col, k, i)
                    /\ (i = 1 /\ result[i][col] # 0) => dev = 0
                    /\ ma = 0 => ~IsNum(dev)

\* a series of more than sixty rows whose first balance is not 0: on the last
\* row the means of 5, 20 and 60 rows differ, and the mean of 60 rows is not
\* the mean of the whole series
C24_Witness ==
    /\ FullyProcessed
    /\ Len(result) > 20
    /\ result[1].fin_bal # 0
    /\ result[1].fin_bal_MA5_dev = 0
    /\ result[Len(result)].fin_bal_MA5 # result[Len(result)].fin_bal_MA20
    /\ result[Len(result)].fin_bal_MA20 # result[Len(result)].fin_bal_MA60
    /\ Len(result) > 60
    /\ result[Len(result)].fin_bal_MA60 * Len(result) # 100 * SumCol(result, "fin_bal")

----------------------------------------------------------------------------
(* Claims about missing source columns *)

\* the source columns a derived column of process_margin_summary needs
Prerequisites(derived) ==
    CASE derived = "net_fin" -> {"fin_bal", "short_bal"}
      [] derived = "fin_share" -> {"fin_bal", "total_bal"}
      [] derived = "short_share" -> {"short_bal", "total_bal"}
      [] derived = "maint_ratio" -> {"total_bal"}
      [] derived = "fin_turnover" -> {"fin_buy", "fin_bal"}
      [] derived = "fin_bal_chg" -> {"fin_bal"}
      [] derived = "short_bal_chg" -> {"short_bal"}
      [] derived = "short_bal_pct1" -> {"short_bal"}
      [] derived = "total_bal_pct5" -> {"total_bal"}
      [] derived = "fin_buy_pct20" -> {"fin_buy"}
      [] derived = "fin_bal_MA5" -> {"fin_bal"}
      [] derived = "short_bal_MA20_dev" -> {"short_bal"}
      [] derived = "total_bal_MA60" -> {"total_bal"}

DerivedColumns ==
    {"net_fin", "fin_share", "short_share", "maint_ratio", "fin_turnover",
     "fin_bal_chg", "short_bal_chg", "short_bal_pct1", "total_bal_pct5",
     "fin_buy_pct20", "fin_bal_MA5", "short_bal_MA20_dev", "total_bal_MA60"}

\* the source columns the table has or can compute: the combined balance is
\* the sum of the two balances when it is not supplied
Available(t) ==
    (Columns(t) \cap SourceColumns)
    \cup (IF {"fin_bal", "short_bal"} \subseteq Columns(t) THEN {"total_bal"} ELSE {})

\* a numeric margin table with a date whose combined balance, where it has
\* one, is not 0 throughout
PlainSeries(t) ==
    /\ t # <<>>
    /\ "trade_date" \in Columns(t)
    /\ \A i \in 1..Len(t), c \in Columns(t) : t[i][c] # Bad
    /\ \E i \in 1..Len(t) :
          \/ "total_bal" \in Columns(t) /\ t[i].total_bal > 0
          \/ "total_bal" \notin Columns(t) /\ Get(t[i], "fin_bal", 1) + Get(t[i], "short_bal", 1) > 0

\* C25: a missing source column is skipped, not zero-filled.  In
\* process_margin_summary each derived column is in the output iff all of its
\* prerequisite source columns are present, an absent source column stays
\* absent, and nothing is raised; in analyze_sector_detail an absent
\* net-inflow or percent-change column is not materialised with zeros.
C25_MissingSkipped ==
    /\ (ProcessReturned /\ PlainSeries(call.margin_data)) =>
          /\ ~raised
          /\ "process_failed" \notin warned
          /\ \A derived \in DerivedColumns :
                derived \in Columns(result)
                    <=> Prerequisites(derived) \subseteq Available(call.margin_data)
          /\ \A c \in SourceColumns :
                c \in Columns(result) <=> c \in Available(call.margin_data)
    /\ (Returned("sector_detail") /\ call.detail_data # <<>>) =>
          /\ ~raised
          /\ \A c \in {"inflow", "pct"} :
                c \notin Columns(call.detail_data) =>
                    /\ c \notin Columns(result.raw_data)
                    /\ c \notin Columns(call.detail_after)

----------------------------------------------------------------------------
(* Claims about the constituents' weights *)

\* the numerators of the returned weights, summed
WeightNumerators ==
    LET upto[i \in 0..Len(result)] ==
            IF i = 0 THEN 0 ELSE upto[i - 1] + result[i].weight.num
    IN  upto[Len(result)]

\* the constituents of a provider's table came back
ConstituentsReturned ==
    /\ Returned("constituents")
    /\ call.constituents_data # <<>>

\* C26: every constituent get_index_constituents returns has a weight in
\* [0, 1], the returned weights sum to 1, also when the list is cut to the
\* configured top-N constituents, and the constituents come by non-increasing
\* weight.
C26_WeightsNormalized ==
    ConstituentsReturned =>
        /\ result # <<>>
        /\ \A i \in 1..Len(result) :
              /\ result[i].weight.den > 0
              /\ 0 <= result[i].weight.num
              /\ result[i].weight.num <= result[i].weight.den
              /\ result[i].weight.den = result[1].weight.den
        /\ WeightNumerators = result[1].weight.den
        /\ \A i \in 1..(Len(result) - 1) :
              result[i].weight.num >= result[i + 1].weight.num

----------------------------------------------------------------------------
(* Claims about the two weighted percent changes *)

\* analyze_index_sector_detail analysed the constituents of a snapshot
SnapshotAnalysed ==
    /\ Returned("index_detail")
    /\ call.sector_data # <<>>
    /\ result.summary.total_stocks > 0

\* C27: the weighted average percent change analyze_index_sector_detail
\* derives from the constituent records of a snapshot equals the snapshot's
\* own weighted percent change, sum(pct * weight) / sum(weight).  The analysis
\* holds its value in hundredths of a percent, the snapshot as a fraction in
\* tenths.
C27_WeightedChangeAgrees ==
    SnapshotAnalysed =>
        LET snapshot == call.sector_data[1].pct
        IN  result.summary.avg_change * 10 * snapshot.den = 100 * snapshot.num

----------------------------------------------------------------------------
(* Claims about a series of one row *)

\* the analysis of a processed series of exactly one row that carries the
\* daily change and the RSI of the combined balance
SingleRowAnalysed ==
    /\ Returned("analyze")
    /\ Len(call.df) = 1
    /\ {"total_bal_pct1", "total_bal_RSI"} \subseteq Columns(call.df)

\* C29: for a processed series of exactly one row the daily percent change
\* and the RSI of that row are undefined, analyze_margin_trends still gives a
\* trend section and a risk section, and it labels the trend fast falling and
\* the risk tier oversold.
C29_SingleRow ==
    SingleRowAnalysed =>
        /\ ~IsNum(call.df[1].total_bal_pct1)
        /\ ~IsNum(call.df[1].total_bal_RSI)
        /\ {"trend", "risk"} \subseteq DOMAIN result
        /\ result.trend.trend = "fast_falling"
        /\ result.risk.risk_level = "oversold"
        /\ ~IsNum(result.trend.recent_change)
        /\ ~IsNum(result.risk.rsi)

\* a one-row series with a positive combined balance was analysed
C29_Witness ==
    /\ SingleRowAnalysed
    /\ call.df[1].total_bal > 0
    /\ "error" \notin DOMAIN result
    /\ result.trend.trend = "fast_falling"

----------------------------------------------------------------------------
(* Claims about the index catalog cache *)

\* a step that is a call of get_index_stock_info
IndexStockInfoCalled == pc' = "returned" /\ call'.op = "index_stock_info"

\* the upstream was called in the step and answered at least one row
FetchedCatalog ==
    /\ call'.fetched
    /\ ~call'.upstream.raises
    /\ call'.upstream.index_df # <<>>

\* every code of the answer is in the catalog, once, under its last name
IsCatalogOf(index_stock, index_df) ==
    /\ {index_stock[k].index_code : k \in 1..Len(index_stock)}
           = {index_df[k].index_code : k \in 1..Len(index_df)}
    /\ Cardinality({index_stock[k].index_code : k \in 1..Len(index_stock)}) = Len(index_stock)
    /\ \A k \in 1..Len(index_stock) :
          LET last == CHOOSE j \in 1..Len(index_df) :
                         /\ index_df[j].index_code = index_stock[k].index_code
                         /\ \A i \in (j + 1)..Len(index_df) :
                               index_df[i].index_code # index_stock[k].index_code
          IN  index_stock[k].display_name = index_df[last].display_name

\* what one call does to the cache and what it returns
CacheProtocol ==
    /\ call'.fetched =>
          \/ fetcher.index_stock_cache = <<>>
          \/ call'.current_time - fetcher.cache_timestamp[1] >= 86400
    /\ FetchedCatalog =>
          /\ fetcher'.index_stock_cache # <<>>
          /\ IsCatalogOf(fetcher'.index_stock_cache[1], call'.upstream.index_df)
          /\ fetcher'.cache_timestamp = <<call'.current_time>>
          /\ result' = fetcher'.index_stock_cache[1]
    /\ ~FetchedCatalog => fetcher' = fetcher
    /\ (fetcher.index_stock_cache # <<>> /\ call'.fetched /\ call'.upstream.raises) =>
          /\ result' = fetcher.index_stock_cache[1]
          /\ result' # <<>>

====
